---- MODULE Spec2Model ----
(***************************************************************************)
(* seedcode REPL: the agent turn engine of ReplApp (handleSubmit,          *)
(* runStream, runCompact, handleInterrupt, handleConfirm), the tool        *)
(* registry's confirmation gate (buildTools / requestConfirm) and the      *)
(* session store calls the engine makes.                                   *)
(*                                                                         *)
(* The AI SDK's streamText is the engine's collaborator.  It is modelled   *)
(* by what the engine relies on: one provider call per step, numbered      *)
(* from 0; text deltas before the step's tool calls (the chat model emits  *)
(* tool-call parts when the provider stream is flushed); execute() of      *)
(* every tool call started as its tool-call part arrives, without waiting  *)
(* for the calls before it to return; onStepFinish once every result of    *)
(* the step is in; a further step only after a step with tool calls and    *)
(* while stopWhen: stepCountIs(MAX_TOOL_STEPS) is not met.  textStream is  *)
(* a queue between the SDK and runStream's for-await loop, so the loop     *)
(* can lag behind the callbacks.  The messages array handed to streamText  *)
(* is read, never written, by the SDK.                                     *)
(*                                                                         *)
(* A key press is a task of its own on the event loop: the handlers of    *)
(* the input box run when the promise jobs of the task before have run to *)
(* completion, that is when the for-await loop has read what textStream   *)
(* holds and no execute() or SDK callback is due.  Provider events can    *)
(* arrive several to a task, so they interleave freely with those jobs.   *)
(***************************************************************************)
EXTENDS Integers, Sequences, FiniteSets, TLC

\* ---------------------------------------------------------------- bounds
MaxTurns == 2
MaxChunks == 1
MaxCalls == 2
MaxQueue == 1
MaxSessions == 2
MaxFile == 3
MaxArg == 2

\* Longest cd target, in path segments, and most 'data' events of a child.
MaxCd == 2

MaxData == 2

\* Deepest path given to the read tool, in segments.
MaxDepth == 3

\* Most calls of the session store in one behaviour.
MaxOps == 3

\* Most text deltas and most steps of the turn whose text is followed.
MaxDeltas == 3

MaxSteps == 2

\* Most lines of a bash output.
MaxLines == 152

\* Longest content given to computeDiff, in characters.
MaxDiff == 3

\* Longest input line given to deleteLeftOfCursor.
MaxValue == 3

\* Tool-call indices a provider stream uses: 0..MaxIndex-1.
MaxIndex == 2

\* Most entries of delta.tool_calls in one chunk.
MaxToolDeltas == 2

\* Most chunks of one provider stream.
MaxStream == 2

\* ------------------------------------------------------ program constants
MAX_TOOL_STEPS == 20

ToolNames == {"read", "edit", "write", "glob", "grep", "bash", "webSearch", "webFetch"}

\* Tools whose execute goes through requestConfirm.
NeedsConfirm == {"edit", "write", "bash"}

\* Gated tools that compute a diff (and may fail) before asking.
DiffBeforeConfirm == {"edit", "write"}

\* The tools the modelled provider draws its calls from: one ungated tool,
\* one gated tool with a pre-confirmation diff, one gated tool without.
ModelTools == {"read", "edit", "bash"}

\* --------------------------------------------------------------- helpers
Prompt == <<0>>
SummaryText == <<0, 0>>
NoPending == [toolName |-> "none", id |-> 0]

Range(s) == {s[i] : i \in DOMAIN s}

Pop(s) == IF s = <<>> THEN s ELSE SubSeq(s, 1, Len(s) - 1)

IsPrefix(s, t) == Len(s) <= Len(t) /\ SubSeq(t, 1, Len(s)) = s

UserMessage == [role |-> "user", content |-> Prompt]
AssistantMessage(text) == [role |-> "assistant", content |-> text]

Entry(type, content, kind) == [type |-> type, content |-> content, kind |-> kind]

SeqsUpTo(S, n) == UNION {[1..k -> S] : k \in 0..n}

\* A tool call as the model emitted it, execute() not yet started.
\*   st       emitted, awaiting (the confirmation), done
\*   answer   what the confirmation promise was settled with
\*   by       who called resolve first: user (handleConfirm) or interrupt
\*   out      the value execute() returned: ok, error, denied ('User denied ...')
\*   ran      the side-effecting body (applyEdit, writeFile, runBash) was called
\*   resolves how often pending.resolve was called for this call
EmittedCall(tool) ==
    [tool |-> tool, st |-> "emitted", answer |-> "none", by |-> "none",
     out |-> "none", ran |-> FALSE, resolves |-> 0]

VARIABLES
    messages,       \* messages.current
    turnCount,      \* turnCount.current
    inFlight,       \* inFlight.current
    abortRef,       \* abortRef.current
    sessionIdRef,   \* sessionIdRef.current
    staticTurns,    \* the user / assistant(done) / error entries pushStatic
                    \* appended since the current turn began
    pendingConfirm, \* the pendingConfirm state: NoPending or the request shown
    accumulated,    \* runStream's accumulated text
    compacting,     \* runCompact awaits generateText
    exited,         \* onExit was called
    skipConfirm,    \* the skipConfirm prop
    disk,           \* session files: session id -> saved message list
    nextSession,    \* ids handed out by createSession so far
    sdkPhase,       \* streamText: idle, streaming, tools, finished, failed, detached
    stepNumber,     \* 0-based number of the step streamText is in
    stepText,       \* step.text: the deltas of the current step so far
    textStream,     \* result.textStream: deltas produced, not yet read by the loop
    calls,          \* step.toolCalls with the state of each execute()
    turns,          \* turns started since the REPL was mounted
    interrupted,    \* where the current turn was when handleInterrupt first ran:
                    \* no (it did not), streaming, tool (a call was awaiting)
    outcome,        \* how the last turn ended
    saved           \* runStream called saveSession for the last turn

\* One execute() of the tool registry at a time, against one file.
VARIABLES
    tfile,          \* the file the tools work on: exists, content
    tcall,          \* the execute() in progress or returned last
    twrite,         \* what fs.writeFileSync has still to write
    tcrashed        \* the process died

\* The REPL engine's state.
replVars == <<messages, turnCount, inFlight, abortRef, sessionIdRef, staticTurns,
              pendingConfirm, accumulated, compacting, exited, skipConfirm, disk,
              nextSession, sdkPhase, stepNumber, stepText, textStream, calls,
              turns, interrupted, outcome, saved>>

\* The state of the tool registry taken alone.
toolVars == <<tfile, tcall, twrite, tcrashed>>

\* One call of withRetry.
VARIABLES
    rphase,         \* idle, calling (fn is pending), sleeping, returned, thrown
    rattempt,       \* the loop variable `attempt`
    rcalls,         \* how often fn was called
    rretries,       \* the (attempt, delay) pairs onRetry was fired with
    raborted,       \* signal.aborted
    rerrs,          \* the errors fn failed with, in order
    rthrown         \* which of them withRetry threw (0: none)

\* The state of the retry wrapper taken alone.
retryVars == <<rphase, rattempt, rcalls, rretries, raborted, rerrs, rthrown>>

\* One call of a bash executor: runBash of tools/bash.ts, the runBash of the
\* shared executor module, or runBashAsync.
VARIABLES
    bfn,            \* which executor is called
    bcmd,           \* the command: what the denylist and the cd scan see in it,
                    \* and the exit code the child ends with when left alone
    bphase,         \* idle, running, returned, thrown
    bchild,         \* none, alive, killed (signalled, not yet closed), gone
    bspawned,       \* a child process was started for the command
    bproduced,      \* bytes the child has written to stdout (stdoutLen)
    bchunks,        \* 'data' events so far
    bkept,          \* bytes appended to runBashAsync's stdout string
    btimedOut,      \* the 30 s timer fired while the child was alive
    bkilled,        \* the executor (or execSync) signalled the child
    bcancel,        \* the user has cancelled the turn
    bduring,        \* ... and did so while the child was alive
    bresult         \* what the executor returned: exitCode, stderr

\* The state of a bash executor taken alone.
bashVars == <<bfn, bcmd, bphase, bchild, bspawned, bproduced, bchunks, bkept,
              btimedOut, bkilled, bcancel, bduring, bresult>>

NoResult == [exitCode |-> -1, stderr |-> ""]

NoCommand == [deny |-> FALSE, cds |-> <<>>, exit |-> 0]

\* No bash executor is in use.
BashIdle ==
    /\ bfn = "none"
    /\ bcmd = NoCommand
    /\ bphase = "idle"
    /\ bchild = "none"
    /\ bspawned = FALSE
    /\ bproduced = 0
    /\ bchunks = 0
    /\ bkept = 0
    /\ btimedOut = FALSE
    /\ bkilled = FALSE
    /\ bcancel = FALSE
    /\ bduring = FALSE
    /\ bresult = NoResult

\* One execute() of the read tool.
VARIABLES
    dhome,          \* os.homedir()
    dpath,          \* the absolute path the tool is called with
    dkind,          \* what is at that path: none, dir, file
    dskip,          \* the registry was built with skipConfirm
    dout            \* what read.execute returned (idle: not called yet)

\* The state of the read tool taken alone.
readVars == <<dhome, dpath, dkind, dskip, dout>>

\* The read tool is not in use.
ReadIdle ==
    /\ dhome = <<"/">>
    /\ dpath = <<"/">>
    /\ dkind = "none"
    /\ dskip = FALSE
    /\ dout = "idle"

\* The session store on disk, for every working directory.
VARIABLES
    sfiles,         \* the {sessionId}.jsonl files of each project directory
    sindex,         \* the entries of each project directory's sessions-index.json
    snow,           \* the clock: store calls made so far
    slast           \* the last store call: op, cwd, id (or prefix), messages, out

\* The state of the session store taken alone.
storeVars == <<sfiles, sindex, snow, slast>>

NoCall == [op |-> "none", cwd |-> <<>>, id |-> <<>>, msgs |-> <<>>, out |-> <<>>]

\* The session store is not in use.
StoreIdle ==
    /\ sfiles = <<>>
    /\ sindex = <<>>
    /\ snow = 0
    /\ slast = NoCall

\* The text of one turn on its way from the provider to the screen.
VARIABLES
    fphase,         \* idle, streaming, finished (the provider is done), done
    freceived,      \* every text delta of the turn, in arrival order
    fqueue,         \* result.textStream: deltas not yet read by the loop
    fstepText,      \* step.text of the step in progress
    fsteps,         \* steps finished
    faccumulated,   \* runStream's accumulated
    fflushTimer,    \* the 50 ms timer is armed
    factiveTurn,    \* the activeTurn state of the component
    fstatic         \* the assistant entries given to pushStatic: content, done

\* The state of the text path taken alone.
flushVars == <<fphase, freceived, fqueue, fstepText, fsteps, faccumulated,
               fflushTimer, factiveTurn, fstatic>>

\* setActiveTurn(null)
NullTurn == <<-1>>

\* No turn is streaming text.
FlushIdle ==
    /\ fphase = "idle"
    /\ freceived = <<>>
    /\ fqueue = <<>>
    /\ fstepText = <<>>
    /\ fsteps = 0
    /\ faccumulated = <<>>
    /\ fflushTimer = FALSE
    /\ factiveTurn = NullTurn
    /\ fstatic = <<>>

\* One call of a helper function that keeps no state of its own.
VARIABLES
    pfn,            \* the function: truncateBashOutput, computeDiff, deleteLeftOfCursor
    pin,            \* its arguments (and the file computeDiff reads)
    pdone,          \* it has returned
    pout            \* what it returned

\* The state of such a call taken alone.
pureVars == <<pfn, pin, pdone, pout>>

\* No helper is being called.
PureIdle ==
    /\ pfn = "none"
    /\ pin = <<>>
    /\ pdone = FALSE
    /\ pout = <<>>

\* The input box in front of the engine's handlers.
VARIABLES
    inputEmpty,     \* valueRef is '' and pendingLinesRef holds no line
    waitingForModel \* the model picker is open

inputVars == <<inputEmpty, waitingForModel>>

InputIdle == inputEmpty = TRUE /\ waitingForModel = FALSE

\* One doStream of the chat model: the TransformStream over the provider's
\* chunks.
VARIABLES
    mphase,         \* open (chunks may come), flushed (the source ended)
    mcount,         \* chunks transformed so far
    mtoolCallState, \* the Map index -> {id, name, arguments}, in insertion order
    mtextId,        \* textId, "" for undefined
    mreasoningId,   \* reasoningId, "" for undefined
    mmeta,          \* responseMetadataEmitted
    mfinish,        \* finishReason.unified
    mgen,           \* ids handed out by generateId so far
    mevents         \* the stream parts enqueued so far

modelVars == <<mphase, mcount, mtoolCallState, mtextId, mreasoningId, mmeta,
               mfinish, mgen, mevents>>

ModelIdle ==
    /\ mphase = "idle"
    /\ mcount = 0
    /\ mtoolCallState = <<>>
    /\ mtextId = ""
    /\ mreasoningId = ""
    /\ mmeta = FALSE
    /\ mfinish = "other"
    /\ mgen = 0
    /\ mevents = <<>>

\* The parts of the program that have a specification of their own below.
laterVars == <<bashVars, readVars, storeVars, flushVars, pureVars, inputVars, modelVars>>

LaterIdle == BashIdle /\ ReadIdle /\ StoreIdle /\ FlushIdle /\ PureIdle /\ InputIdle /\ ModelIdle

vars == <<replVars, toolVars, retryVars, laterVars>>

\* The session a turn works on.
histVars == <<messages, turnCount, sessionIdRef, disk, nextSession, turns>>

\* The engine's flags.
flagVars == <<inFlight, abortRef, compacting, exited, skipConfirm>>

\* What is recorded about the current turn.
turnVars == <<staticTurns, accumulated, interrupted, outcome, saved>>

\* The state of streamText.
sdkVars == <<sdkPhase, stepNumber, stepText, textStream, calls>>

Sessions == 1..MaxSessions

ReplInit ==
    /\ messages = <<>>
    /\ turnCount = 0
    /\ inFlight = FALSE
    /\ abortRef = FALSE
    /\ sessionIdRef = 1
    /\ staticTurns = <<>>
    /\ pendingConfirm = NoPending
    /\ accumulated = <<>>
    /\ compacting = FALSE
    /\ exited = FALSE
    /\ skipConfirm \in BOOLEAN
    /\ disk = [s \in Sessions |-> <<>>]
    /\ nextSession = 1
    /\ sdkPhase = "idle"
    /\ stepNumber = 0
    /\ stepText = <<>>
    /\ textStream = <<>>
    /\ calls = <<>>
    /\ turns = 0
    /\ interrupted = "no"
    /\ outcome = "none"
    /\ saved = FALSE

\* ------------------------------------------------- strings as edit.ts sees them

\* The characters of file contents and tool arguments: a plain one and the
\* two that String.prototype.replace reads in a replacement text.
Chars == {"a", "$", "&"}

Texts(n) == SeqsUpTo(Chars, n)

NoFile == [exists |-> FALSE, content |-> <<>>]

Files == {NoFile} \cup {[exists |-> TRUE, content |-> t] : t \in Texts(MaxFile)}

\* p is found in s at index i (1-based).
MatchesAt(s, p, i) ==
    /\ i + Len(p) - 1 <= Len(s)
    /\ SubSeq(s, i, i + Len(p) - 1) = p

\* s.indexOf(p, from), 1-based; 0 when p is not found.
IndexOf(s, p, from) ==
    LET hits == {i \in from..(Len(s) + 1) : MatchesAt(s, p, i)}
    IN  IF hits = {} THEN 0 ELSE CHOOSE i \in hits : \A j \in hits : i <= j

\* s.split(p).length: the pieces between the matches found left to right,
\* each search going on after the match before; one piece per character
\* when p is empty.
RECURSIVE SplitLength(_, _, _)
SplitLength(s, p, from) ==
    IF p = <<>> THEN Len(s)
    ELSE LET i == IndexOf(s, p, from)
         IN  IF i = 0 THEN 1 ELSE 1 + SplitLength(s, p, i + Len(p))

\* `content.split(oldString).length - 1`
Occurrences(s, p) == SplitLength(s, p, 1) - 1

\* GetSubstitution of String.prototype.replace for a string pattern:
\* $$ is a dollar, $& the match, $` and $' the text before and after it.
RECURSIVE GetSubstitution(_, _, _, _)
GetSubstitution(t, matched, pre, post) ==
    IF t = <<>> THEN <<>>
    ELSE IF Head(t) = "$" /\ Len(t) >= 2 /\ t[2] \in {"$", "&", "`", "'"}
        THEN (CASE t[2] = "$" -> <<"$">>
                [] t[2] = "&" -> matched
                [] t[2] = "`" -> pre
                [] t[2] = "'" -> post)
             \o GetSubstitution(SubSeq(t, 3, Len(t)), matched, pre, post)
        ELSE <<Head(t)>> \o GetSubstitution(Tail(t), matched, pre, post)

\* `content.replace(oldString, newString)`: the first match only.
JsReplace(s, p, t) ==
    LET i == IndexOf(s, p, 1)
        pre == SubSeq(s, 1, i - 1)
        post == SubSeq(s, i + Len(p), Len(s))
    IN  IF i = 0 THEN s ELSE pre \o GetSubstitution(t, p, pre, post) \o post

\* ------------------------------------------------ one execute() of a tool

\* No execute() has been called yet.
\*   st        idle, awaiting (the confirmation), writing, returned, thrown
\*   approved  none, yes / no (the user's answer), skip (skipConfirm)
\*   out       ok, error (a ToolError), denied ('User denied ...')
\*   asked     requestConfirm handed a request to the UI
\*   ran       applyEdit / writeFile / runBash was called
\*   raised    an exception was raised inside the try block
\*   read      the content applyEdit read
\*   before    the file when writeFileSync opened it
\*   target    the content writeFileSync was given
IdleCall ==
    [tool |-> "none", old |-> <<>>, new |-> <<>>, st |-> "idle",
     approved |-> "none", out |-> "none", asked |-> FALSE, ran |-> FALSE,
     raised |-> FALSE, read |-> <<>>, before |-> NoFile, target |-> <<>>]

NewCall(tool, old, new) ==
    [IdleCall EXCEPT !.tool = tool, !.old = old, !.new = new]

\* The arguments a tool reads: old_string and new_string for edit, content
\* for write.
OldArgs(tool) == IF tool = "edit" THEN Texts(MaxArg) ELSE {<<>>}

NewArgs(tool) == IF tool \in {"edit", "write"} THEN Texts(MaxArg) ELSE {<<>>}

\* execute() returns a value.
ToolOut(c, out) == [c EXCEPT !.st = "returned", !.out = out]

\* Mutant of Catch: the exception leaves execute().
CatchMissing(c) == [c EXCEPT !.st = "thrown", !.raised = TRUE]

\* `catch (err) { return { error: ... } }` around the body of every execute().
Catch(c) == [c EXCEPT !.st = "returned", !.out = "error", !.raised = TRUE]

\* execute() returns or suspends with c; the file is not touched.
Return(c) ==
    /\ tcall' = c
    /\ UNCHANGED <<tfile, twrite>>

\* fs.writeFileSync(abs, data): the file is opened with truncation, the data
\* is written after that.
BeginWrite(c, data) ==
    /\ tcall' = [c EXCEPT !.st = "writing", !.before = tfile, !.target = data]
    /\ tfile' = [exists |-> TRUE, content |-> <<>>]
    /\ twrite' = data

\* Mutant of RunToolBody: applyEdit trusts the check made before the gate.
RunToolBodyNoRecheck(c, fault) ==
    LET r == [c EXCEPT !.ran = TRUE]
    IN  CASE c.tool = "edit" ->
                 IF fault THEN Return(Catch(r))
                 ELSE IF ~tfile.exists
                     THEN Return(ToolOut(r, "error"))
                 ELSE BeginWrite([r EXCEPT !.read = tfile.content],
                                 JsReplace(tfile.content, c.old, c.new))
          [] c.tool = "write" ->
                 IF fault THEN Return(Catch(r)) ELSE BeginWrite(r, c.new)
          [] c.tool = "bash" ->
                 IF fault THEN Return(Catch(r))
                 ELSE /\ tcall' = ToolOut(r, "ok")
                      /\ tfile' \in {tfile, NoFile}
                      /\ UNCHANGED twrite

\* The body behind the gate.  fault: the body raises (an fs error, the
\* command denylist of runBash).
RunToolBody(c, fault) ==
    LET r == [c EXCEPT !.ran = TRUE]
    IN  CASE c.tool = "edit" ->
                 IF fault THEN Return(Catch(r))
                 ELSE IF ~tfile.exists \/ Occurrences(tfile.content, c.old) # 1
                     THEN Return(ToolOut(r, "error"))
                 ELSE BeginWrite([r EXCEPT !.read = tfile.content],
                                 JsReplace(tfile.content, c.old, c.new))
          [] c.tool = "write" ->
                 IF fault THEN Return(Catch(r)) ELSE BeginWrite(r, c.new)
          [] c.tool = "bash" ->
                 IF fault THEN Return(Catch(r))
                 ELSE /\ tcall' = ToolOut(r, "ok")
                      /\ tfile' \in {tfile, NoFile}
                      /\ UNCHANGED twrite

\* Mutant of ToolGate: the body runs without a request.
ToolGateOpen(c, fault) == RunToolBody(c, fault)

\* `await requestConfirm(...)` and what follows it at once under skipConfirm.
ToolGate(c, fault) ==
    IF skipConfirm
        THEN RunToolBody([c EXCEPT !.approved = "skip"], fault)
        ELSE Return([c EXCEPT !.st = "awaiting", !.asked = TRUE])

\* execute() of a tool from its call to its first await or its return; one
\* call is followed, from any file.
\* fault1: the code before the gate raises; fault2: the body raises.
ExecuteTool(tool, old, new, fault1, fault2) ==
    /\ ~tcrashed
    /\ tcall.st = "idle"
    /\ LET c == NewCall(tool, old, new)
       IN  CASE tool = "read" ->
                    Return(IF fault1 \/ ~tfile.exists THEN Catch(c)
                           ELSE ToolOut(c, "ok"))
             [] tool \in {"glob", "grep", "webSearch", "webFetch"} ->
                    Return(IF fault1 THEN Catch(c) ELSE ToolOut(c, "ok"))
             [] tool = "edit" ->
                    IF fault1 THEN Return(Catch(c))
                    ELSE IF \/ ~tfile.exists
                            \/ Occurrences(tfile.content, old) = 0
                            \/ Occurrences(tfile.content, old) > 1
                        THEN Return(ToolOut(c, "error"))
                    ELSE ToolGate(c, fault2)
             [] tool = "write" ->
                    IF fault1 THEN Return(Catch(c)) ELSE ToolGate(c, fault2)
             [] tool = "bash" -> ToolGate(c, fault2)
    /\ UNCHANGED <<tcrashed, replVars>>

\* The user answers the request: the promise of requestConfirm is resolved
\* and execute() goes on.
AnswerConfirm(approved, fault) ==
    /\ ~tcrashed
    /\ tcall.st = "awaiting"
    /\ IF approved
          THEN RunToolBody([tcall EXCEPT !.approved = "yes"], fault)
          ELSE Return(ToolOut([tcall EXCEPT !.approved = "no"], "denied"))
    /\ UNCHANGED <<tcrashed, replVars>>

\* writeFileSync writes the next part of its data.
WriteData ==
    /\ ~tcrashed
    /\ tcall.st = "writing"
    /\ twrite # <<>>
    /\ tfile' = [tfile EXCEPT !.content = Append(tfile.content, Head(twrite))]
    /\ twrite' = Tail(twrite)
    /\ UNCHANGED <<tcall, tcrashed, replVars>>

\* writeFileSync returns; applyEdit / writeFile return; execute() returns.
WriteDone ==
    /\ ~tcrashed
    /\ tcall.st = "writing"
    /\ twrite = <<>>
    /\ tcall' = ToolOut(tcall, "ok")
    /\ UNCHANGED <<tfile, twrite, tcrashed, replVars>>

\* Another process changes the file while execute() waits for the answer.
ExternalChange ==
    /\ ~tcrashed
    /\ tcall.st = "awaiting"
    /\ tfile' \in Files \ {tfile}
    /\ UNCHANGED <<tcall, twrite, tcrashed, replVars>>

\* The process dies.
Crash ==
    /\ ~tcrashed
    /\ tcrashed' = TRUE
    /\ UNCHANGED <<tfile, tcall, twrite, replVars>>

\* The tool registry at rest.
ToolsIdle ==
    /\ tfile = NoFile
    /\ tcall = IdleCall
    /\ twrite = <<>>
    /\ tcrashed = FALSE

\* The retry wrapper at rest.
RetryIdle ==
    /\ rphase = "idle"
    /\ rattempt = 0
    /\ rcalls = 0
    /\ rretries = <<>>
    /\ raborted = FALSE
    /\ rerrs = <<>>
    /\ rthrown = 0

InitTools ==
    /\ ReplInit
    /\ RetryIdle
    /\ LaterIdle
    /\ tfile \in Files
    /\ tcall = IdleCall
    /\ twrite = <<>>
    /\ tcrashed = FALSE

NextTools ==
    /\ UNCHANGED <<retryVars, laterVars>>
    /\ \/ \E tool \in ToolNames, fault1 \in BOOLEAN, fault2 \in BOOLEAN :
              \E old \in OldArgs(tool), new \in NewArgs(tool) :
                  ExecuteTool(tool, old, new, fault1, fault2)
       \/ \E approved \in BOOLEAN, fault \in BOOLEAN : AnswerConfirm(approved, fault)
       \/ WriteData
       \/ WriteDone
       \/ ExternalChange
       \/ Crash

SpecTools == InitTools /\ [][NextTools]_vars

\* ------------------------------------------------------------- retry wrapper

BASE_DELAY_MS == 1000
MAX_ATTEMPTS == 3

\* Error messages by the markers classifyError looks for in them.
ErrorMessages ==
    {{"401"}, {"429"}, {"503"}, {"econnreset"}, {"401", "econnreset"}, {}}

\* Values of Math.random(), in thousandths.
RandomSamples == {0, 500, 999}

classifyError(msg) ==
    IF msg \cap {"401", "invalid api key", "unauthorized"} # {} THEN "auth"
    ELSE IF msg \cap {"429", "rate limit", "too many requests"} # {} THEN "rate_limit"
    ELSE IF msg \cap {"503", "service unavailable"} # {} THEN "network"
    ELSE IF msg \cap {"network", "econnrefused", "econnreset", "etimedout",
                      "fetch failed", "socket hang up"} # {} THEN "network"
    ELSE "unknown"

\* Mutant of isRetryable: everything but auth is retried.
isRetryableButAuth(msg) == classifyError(msg) # "auth"

isRetryable(msg) == classifyError(msg) \in {"rate_limit", "network"}

\* Mutant of LastAttempt: the comparison off by one.
LastAttemptLate(attempt) == attempt > MAX_ATTEMPTS

\* `attempt === MAX_ATTEMPTS`
LastAttempt(attempt) == attempt = MAX_ATTEMPTS

\* Mutant of BackoffBase: the exponent off by one.
BackoffBaseDouble(attempt) == BASE_DELAY_MS * 2 ^ attempt

\* `BASE_DELAY_MS * Math.pow(2, attempt - 1)`
BackoffBase(attempt) == BASE_DELAY_MS * 2 ^ (attempt - 1)

\* Math.round(base + base * 0.25 * (random * 2 - 1)), random = r / 1000.
BackoffDelay(attempt, r) ==
    (BackoffBase(attempt) * (3000 + 2 * r) + 2000) \div 4000

\* The loop goes on after sleep(): the next attempt calls fn, or the loop
\* is over and lastErr is thrown.
NextAttempt ==
    IF rattempt + 1 <= MAX_ATTEMPTS
        THEN /\ rphase' = "calling"
             /\ rattempt' = rattempt + 1
             /\ rcalls' = rcalls + 1
             /\ UNCHANGED rthrown
        ELSE /\ rphase' = "thrown"
             /\ rthrown' = Len(rerrs)
             /\ UNCHANGED <<rattempt, rcalls>>

\* withRetry(fn, onRetry, signal) is called: attempt 1 calls fn.
withRetry ==
    /\ rphase = "idle"
    /\ rphase' = "calling"
    /\ rattempt' = 1
    /\ rcalls' = 1
    /\ UNCHANGED <<rretries, raborted, rerrs, rthrown, replVars, toolVars>>

\* fn resolves: `return await fn()`.
FnSucceeds ==
    /\ rphase = "calling"
    /\ rphase' = "returned"
    /\ UNCHANGED <<rattempt, rcalls, rretries, raborted, rerrs, rthrown,
                   replVars, toolVars>>

\* fn rejects with msg: the catch block, up to `await sleep(delay, signal)`.
FnFails(msg, r) ==
    /\ rphase = "calling"
    /\ rerrs' = Append(rerrs, msg)
    /\ IF ~isRetryable(msg) \/ LastAttempt(rattempt) \/ raborted
          THEN /\ rphase' = "thrown"
               /\ rthrown' = Len(rerrs) + 1
               /\ UNCHANGED <<rattempt, rcalls, rretries>>
          ELSE /\ rretries' = Append(rretries,
                       [attempt |-> rattempt, delay |-> BackoffDelay(rattempt, r)])
               /\ rphase' = "sleeping"
               /\ UNCHANGED <<rattempt, rcalls, rthrown>>
    /\ UNCHANGED <<raborted, replVars, toolVars>>

\* The timer of sleep() fires.
TimerFires ==
    /\ rphase = "sleeping"
    /\ NextAttempt
    /\ UNCHANGED <<rretries, raborted, rerrs, replVars, toolVars>>

\* The signal is aborted; a pending sleep() is resolved by its listener.
Abort ==
    /\ ~raborted
    /\ rphase \in {"calling", "sleeping"}
    /\ raborted' = TRUE
    /\ IF rphase = "sleeping" THEN NextAttempt
       ELSE UNCHANGED <<rphase, rattempt, rcalls, rthrown>>
    /\ UNCHANGED <<rretries, rerrs, replVars, toolVars>>

InitRetry ==
    /\ ReplInit
    /\ ToolsIdle
    /\ RetryIdle
    /\ LaterIdle

NextRetry ==
    /\ UNCHANGED laterVars
    /\ \/ withRetry
       \/ FnSucceeds
       \/ \E msg \in ErrorMessages, r \in RandomSamples : FnFails(msg, r)
       \/ TimerFires
       \/ Abort

SpecRetry == InitRetry /\ [][NextRetry]_vars

\* ------------------------------------------------------------ bash executors

\* maxBuffer of execSync and the cap of runBashAsync, in bytes: 10 * 1024 * 1024.
MAX_BUFFER == 10485760

\* Directory names are strings of characters, so that String.startsWith sees
\* them as the code does.
DirNames == {<<"p">>, <<"p", "e">>, <<"x">>}

DotDot == <<".", ".">>

\* The directory the REPL was started in: /h/p.
BaseCwd == << <<"h">>, <<"p">> >>

\* What the capture group of cdPattern can hold: an absolute or a relative path.
CdTargets == [abs : BOOLEAN, segs : SeqsUpTo(DirNames \cup {DotDot}, MaxCd)]

\* The commands a call is made with. deny: some DENYLIST_PATTERNS entry matches
\* the command. cds: the targets cdPattern finds, in order. exit: the exit code
\* of the command when nothing stops it.
Commands ==
    [deny : BOOLEAN,
     cds  : {<<>>} \cup {<<t>> : t \in CdTargets},
     exit : {0, 2}]

RECURSIVE Normalize(_, _)
Normalize(segs, acc) ==
    IF segs = <<>> THEN acc
    ELSE IF Head(segs) = DotDot
        THEN Normalize(Tail(segs), IF acc = <<>> THEN acc ELSE SubSeq(acc, 1, Len(acc) - 1))
    ELSE Normalize(Tail(segs), Append(acc, Head(segs)))

\* path.resolve(baseCwd, targetDir), as the list of directory names.
PathResolve(base, target) ==
    Normalize(IF target.abs THEN target.segs ELSE base \o target.segs, <<>>)

RECURSIVE PathString(_)
\* The string path.resolve returns for a list of directory names.
PathString(segs) ==
    IF segs = <<>> THEN <<"/">>
    ELSE IF Len(segs) = 1 THEN <<"/">> \o segs[1]
    ELSE PathString(SubSeq(segs, 1, Len(segs) - 1)) \o <<"/">> \o segs[Len(segs)]

\* String.prototype.startsWith.
StartsWith(s, p) == IsPrefix(p, s)

\* The loop over DENYLIST_PATTERNS finds a match and throws.
checkDenylistOff(cmd) == FALSE

checkDenylist(cmd) == cmd.deny

\* Layer 2 of runBash in tools/bash.ts throws for some cd target.
cdEscapeBlocked(cmd) ==
    \E i \in 1..Len(cmd.cds) :
        ~StartsWith(PathString(PathResolve(BaseCwd, cmd.cds[i])), PathString(BaseCwd))

\* The executor throws before it starts anything.
BashThrow ==
    /\ bphase' = "thrown"
    /\ UNCHANGED <<bfn, bcmd, bchild, bspawned, bproduced, bchunks, bkept, btimedOut,
                   bkilled, bcancel, bduring, bresult>>

\* execSync or spawn starts the child.
BashSpawn ==
    /\ bphase' = "running"
    /\ bchild' = "alive"
    /\ bspawned' = TRUE
    /\ UNCHANGED <<bfn, bcmd, bproduced, bchunks, bkept, btimedOut, bkilled, bcancel,
                   bduring, bresult>>

\* The executor returns (or its promise resolves with) a BashResult.
BashReturn(code, err) ==
    /\ bphase' = "returned"
    /\ bresult' = [exitCode |-> code, stderr |-> err]

\* runBash of tools/bash.ts, up to the call of execSync.
runBash ==
    /\ bphase = "idle"
    /\ bfn = "runBash"
    /\ IF checkDenylist(bcmd) THEN BashThrow
       ELSE IF cdEscapeBlocked(bcmd) THEN BashThrow
       ELSE BashSpawn

\* runBash of the shared executor module, up to the call of execSync.
runBashShared ==
    /\ bphase = "idle"
    /\ bfn = "runBashShared"
    /\ IF checkDenylist(bcmd) THEN BashThrow ELSE BashSpawn

\* runBashAsync, up to the return of its promise.
runBashAsync ==
    /\ bphase = "idle"
    /\ bfn = "runBashAsync"
    /\ IF checkDenylist(bcmd) THEN BashThrow
       ELSE IF bcancel
           THEN /\ BashReturn(130, "Aborted")
                /\ UNCHANGED <<bfn, bcmd, bchild, bspawned, bproduced, bchunks, bkept,
                               btimedOut, bkilled, bcancel, bduring>>
       ELSE BashSpawn

IsSync == bfn \in {"runBash", "runBashShared"}

\* The child writes a chunk to stdout. execSync kills the child and throws
\* (status null) once the output passes maxBuffer; runBashAsync's 'data'
\* handler counts the chunk and appends it only while stdoutLen <= MAX_BUFFER.
ChildData(n) ==
    /\ bphase = "running"
    /\ bchild = "alive"
    /\ bchunks < MaxData
    /\ bchunks' = bchunks + 1
    /\ bproduced' = bproduced + n
    /\ IF IsSync
           THEN IF bproduced + n > MAX_BUFFER
                    THEN /\ bkilled' = TRUE
                         /\ bchild' = "gone"
                         /\ BashReturn(1, "ENOBUFS")
                         /\ UNCHANGED bkept
                    ELSE UNCHANGED <<bkilled, bchild, bphase, bresult, bkept>>
           ELSE /\ bkept' = IF bproduced + n <= MAX_BUFFER THEN bkept + n ELSE bkept
                /\ UNCHANGED <<bkilled, bchild, bphase, bresult>>
    /\ UNCHANGED <<bfn, bcmd, bspawned, btimedOut, bcancel, bduring>>

\* The child ends by itself. execSync returns for status 0 and throws with the
\* status otherwise; runBashAsync's 'close' handler resolves with the code.
ChildExit ==
    /\ bphase = "running"
    /\ bchild = "alive"
    /\ bchild' = "gone"
    /\ BashReturn(bcmd.exit, IF bcmd.exit = 0 THEN "" ELSE "stderr")
    /\ UNCHANGED <<bfn, bcmd, bspawned, bproduced, bchunks, bkept, btimedOut, bkilled,
                   bcancel, bduring>>

\* 30 s have passed. execSync kills the child and throws (status null);
\* runBashAsync's timer callback sends SIGTERM.
BashTimeout ==
    /\ bphase = "running"
    /\ bchild = "alive"
    /\ btimedOut' = TRUE
    /\ bkilled' = TRUE
    /\ IF IsSync
           THEN /\ bchild' = "gone"
                /\ BashReturn(1, "ETIMEDOUT")
           ELSE /\ bchild' = "killed"
                /\ UNCHANGED <<bphase, bresult>>
    /\ UNCHANGED <<bfn, bcmd, bspawned, bproduced, bchunks, bkept, bcancel, bduring>>

\* The user cancels the turn while the command runs. The signal given to
\* runBashAsync fires and onAbort sends SIGTERM. The synchronous executors
\* take no signal, and execSync keeps the event loop until the child is gone.
BashCancel ==
    /\ bphase = "running"
    /\ bchild \in {"alive", "killed"}
    /\ ~bcancel
    /\ bcancel' = TRUE
    /\ bduring' = TRUE
    /\ IF IsSync
           THEN UNCHANGED <<bkilled, bchild>>
           ELSE /\ bkilled' = TRUE
                /\ bchild' = "killed"
    /\ UNCHANGED <<bfn, bcmd, bphase, bspawned, bproduced, bchunks, bkept, btimedOut,
                   bresult>>

\* 'close' of a child that SIGTERM ended: code is null.
ChildClose ==
    /\ bphase = "running"
    /\ bchild = "killed"
    /\ bchild' = "gone"
    /\ BashReturn(IF bkilled THEN 130 ELSE 1, IF bkilled /\ bcancel THEN "Aborted" ELSE "")
    /\ UNCHANGED <<bfn, bcmd, bspawned, bproduced, bchunks, bkept, btimedOut, bkilled,
                   bcancel, bduring>>

\* What bash.execute of the tool registry returns for the executor's outcome.
BashToolOut ==
    IF bphase = "thrown" THEN "ToolError"
    ELSE IF bphase = "returned" THEN "BashResult"
    ELSE "pending"

InitBash ==
    /\ ReplInit
    /\ ToolsIdle
    /\ RetryIdle
    /\ ModelIdle
    /\ InputIdle
    /\ PureIdle
    /\ ReadIdle
    /\ StoreIdle
    /\ FlushIdle
    /\ bfn \in {"runBash", "runBashShared", "runBashAsync"}
    /\ bcmd \in Commands
    /\ bphase = "idle"
    /\ bchild = "none"
    /\ bspawned = FALSE
    /\ bproduced = 0
    /\ bchunks = 0
    /\ bkept = 0
    /\ btimedOut = FALSE
    /\ bkilled = FALSE
    /\ bcancel \in BOOLEAN
    /\ bduring = FALSE
    /\ bresult = NoResult

NextBash ==
    /\ UNCHANGED <<replVars, toolVars, retryVars, readVars, storeVars, flushVars, pureVars, inputVars, modelVars>>
    /\ \/ runBash
       \/ runBashShared
       \/ runBashAsync
       \/ \E n \in {1, MAX_BUFFER} : ChildData(n)
       \/ ChildExit
       \/ BashTimeout
       \/ BashCancel
       \/ ChildClose

SpecBash == InitBash /\ [][NextBash]_vars

\* ----------------------------------------------------------------- read tool

\* File and directory names, as strings of characters.
NameSsh == <<".", "s", "s", "h">>
NameAws == <<".", "a", "w", "s">>
NameConfig == <<".", "c", "o", "n", "f", "i", "g">>
NameEnv == <<".", "e", "n", "v">>

\* The directories of DENY_LIST's '**/<dir>/**' patterns.
DenyDirs == {NameSsh, NameAws, NameConfig}

\* The names the modelled paths are made of: a credential directory, a dotenv
\* file with a suffix, and two plain names.
PathNames == {NameSsh, NameEnv \o <<"2">>, <<"u">>, <<"k">>}

\* The absolute paths read is called with, as path.resolve returns them.
ReadPaths == {PathString(segs) : segs \in SeqsUpTo(PathNames, MaxDepth) \ {<<>>}}

\* os.homedir() returns $HOME as it is set: a directory, the same with a
\* trailing slash, or the root.
Homes == {PathString(<< <<"u">> >>), PathString(<< <<"u">> >>) \o <<"/">>, <<"/">>}

\* String.prototype.slice(start) for 0 <= start.
Slice(str, start) == SubSeq(str, start + 1, Len(str))

RECURSIVE SlashSplit(_, _, _)
\* The path segments minimatch sees: the string cut at every slash.
SlashSplit(str, cur, acc) ==
    IF str = <<>> THEN Append(acc, cur)
    ELSE IF Head(str) = "/" THEN SlashSplit(Tail(str), <<>>, Append(acc, cur))
    ELSE SlashSplit(Tail(str), Append(cur, Head(str)), acc)

\* minimatch(rel, pattern, { dot: true }) for some pattern of DENY_LIST:
\* '**/<dir>/**' wants a segment equal to <dir> with a segment after it,
\* '**/.env*' wants the last segment to start with .env.
MatchesDenyList(rel) ==
    LET parts == SlashSplit(rel, <<>>, <<>>)
    IN  \/ \E i \in 1..(Len(parts) - 1) : parts[i] \in DenyDirs
        \/ StartsWith(parts[Len(parts)], NameEnv)

\* rel as isDenied computes it: the home prefix and one more character cut off.
RelOf(home, abs) == IF StartsWith(abs, home) THEN Slice(abs, Len(home) + 1) ELSE abs

isDenied(home, abs) == MatchesDenyList(RelOf(home, abs))

\* readFile: the deny-list, then existsSync, then isFile, then readFileSync.
readFile(home, abs, kind) ==
    IF isDenied(home, abs) THEN "Access denied"
    ELSE IF kind = "none" THEN "File not found"
    ELSE IF kind # "file" THEN "Not a file"
    ELSE "content"

\* read.execute: readFile's throw becomes the error of a ToolError. The tool
\* never calls requestConfirm, so skipConfirm is not looked at.
readExecute ==
    /\ dout = "idle"
    /\ dout' = readFile(dhome, dpath, dkind)
    /\ UNCHANGED <<dhome, dpath, dkind, dskip>>

InitRead ==
    /\ ReplInit
    /\ ToolsIdle
    /\ RetryIdle
    /\ ModelIdle
    /\ InputIdle
    /\ PureIdle
    /\ BashIdle
    /\ StoreIdle
    /\ FlushIdle
    /\ dhome \in Homes
    /\ dpath \in ReadPaths
    /\ dkind \in {"none", "dir", "file"}
    /\ dskip \in BOOLEAN
    /\ dout = "idle"

NextRead ==
    /\ UNCHANGED <<replVars, toolVars, retryVars, bashVars, storeVars, flushVars, pureVars, inputVars, modelVars>>
    /\ readExecute

SpecRead == InitRead /\ [][NextRead]_vars

\* ------------------------------------------------------ session store on disk

\* Working directories: two whose slugs collide, and a third.
Cwds == {<<"/", "a", "/", "b">>, <<"/", "a", "-", "b">>, <<"/", "c">>}

\* cwd.replace(/\//g, '-')
cwdSlug(cwd) == [i \in 1..Len(cwd) |-> IF cwd[i] = "/" THEN "-" ELSE cwd[i]]

\* The project directories under ~/.seedcode/projects.
ProjectDirs == {cwdSlug(cwd) : cwd \in Cwds}

\* Session ids (randomUUID) as strings; two of them share their first character.
SessionIds == {<<"a", "1">>, <<"a", "2">>, <<"b", "1">>}

\* The prefixes resolveSessionId is asked for.
Prefixes == {<<>>, <<"a">>, <<"b">>, <<"c">>, <<"a", "1">>, <<"a", "2">>, <<"b", "1">>}

StoreUser == [role |-> "user", content |-> "p"]
StoreAssistant == [role |-> "assistant", content |-> "t"]

\* The message lists saveSession is called with.
StoreLists ==
    {<<>>, <<StoreUser>>, <<StoreUser, StoreAssistant>>, <<StoreAssistant, StoreUser>>}

\* No file at a path.
Enoent == <<"ENOENT">>

\* JSON.stringify(m): one line of text without a line break.
JsonStringify(m) == <<"{", m.role, m.content, "}">>

\* JSON.parse of such a line.
JsonParse(line) == [role |-> line[2], content |-> line[3]]

RECURSIVE JoinRange(_, _, _)
\* lines[a..b] joined by line breaks, by halves.
JoinRange(lines, a, b) ==
    IF a > b THEN <<>>
    ELSE IF a = b THEN lines[a]
    ELSE LET m == (a + b) \div 2
         IN  JoinRange(lines, a, m) \o <<"\n">> \o JoinRange(lines, m + 1, b)

\* lines.join('\n')
JoinLines(lines) == JoinRange(lines, 1, Len(lines))

\* raw.split('\n'): the pieces before, between and after the line breaks.
SplitLines(raw) ==
    LET n == Len(raw)
        breaks == SelectSeq([i \in 1..n |-> i], LAMBDA i : raw[i] = "\n")
        k == Len(breaks)
    IN  [j \in 1..(k + 1) |->
            SubSeq(raw, IF j = 1 THEN 1 ELSE breaks[j - 1] + 1,
                        IF j = k + 1 THEN n ELSE breaks[j] - 1)]

\* .filter(Boolean) on strings: the empty ones go.
FilterBoolean(lines) == SelectSeq(lines, LAMBDA l : l # <<>>)

\* readIndex: the entries, or none when the index file cannot be read.
readIndex(index, cwd) == index[cwdSlug(cwd)]

\* entries.findIndex(e => e.sessionId === sessionId), 0 for -1.
FindIndex(entries, id) ==
    IF \E i \in 1..Len(entries) : entries[i].sessionId = id
        THEN CHOOSE i \in 1..Len(entries) :
                 /\ entries[i].sessionId = id
                 /\ \A j \in 1..(i - 1) : entries[j].sessionId # id
        ELSE 0

\* entries.splice(idx, 1)
Splice(entries, idx) == SubSeq(entries, 1, idx - 1) \o SubSeq(entries, idx + 1, Len(entries))

\* loadSession: read, split, filter, parse; [] when the file cannot be read.
loadSession(files, cwd, id) ==
    LET raw == files[<<cwdSlug(cwd), id>>]
    IN  IF raw = Enoent THEN <<>>
        ELSE LET lines == FilterBoolean(SplitLines(raw))
             IN  [i \in 1..Len(lines) |-> JsonParse(lines[i])]

\* listSessions without the sort, which no caller modelled here depends on.
listSessions(index, cwd) == readIndex(index, cwd)

resolveSessionIdAny(index, cwd, prefix) ==
    LET entries == listSessions(index, cwd)
        matches == SelectSeq(entries, LAMBDA e : StartsWith(e.sessionId, prefix))
    IN  IF Len(matches) >= 1 THEN matches[1].sessionId ELSE <<>>

\* resolveSessionId: the id, or <<>> for null.
resolveSessionId(index, cwd, prefix) ==
    LET entries == listSessions(index, cwd)
        matches == SelectSeq(entries, LAMBDA e : StartsWith(e.sessionId, prefix))
    IN  IF Len(matches) = 1 THEN matches[1].sessionId ELSE <<>>

StoreCall(op, cwd, id, msgs, out) ==
    /\ snow < MaxOps
    /\ snow' = snow + 1
    /\ slast' = [op |-> op, cwd |-> cwd, id |-> id, msgs |-> msgs, out |-> out]

\* saveSession: nothing for an empty list; else the file is rewritten and the
\* index entry replaced or pushed. The clock gives `now`.
saveSession(cwd, id, msgs) ==
    /\ StoreCall("save", cwd, id, msgs, <<>>)
    /\ IF msgs = <<>>
           THEN UNCHANGED <<sfiles, sindex>>
           ELSE LET slug == cwdSlug(cwd)
                    jsonl == JoinLines([i \in 1..Len(msgs) |-> JsonStringify(msgs[i])])
                    entries == readIndex(sindex, cwd)
                    existing == FindIndex(entries, id)
                    now == snow + 1
                    entry == [sessionId    |-> id,
                              messageCount |-> Len(msgs),
                              created      |-> IF existing > 0
                                                   THEN entries[existing].created
                                                   ELSE now,
                              modified     |-> now]
                IN  /\ sfiles' = [sfiles EXCEPT ![<<slug, id>>] = jsonl]
                    /\ sindex' = [sindex EXCEPT ![slug] =
                                      IF existing > 0
                                          THEN [entries EXCEPT ![existing] = entry]
                                          ELSE Append(entries, entry)]

\* deleteSession: false when the index has no entry; else unlink and splice.
deleteSession(cwd, id) ==
    LET slug == cwdSlug(cwd)
        entries == readIndex(sindex, cwd)
        idx == FindIndex(entries, id)
    IN  IF idx = 0
            THEN /\ StoreCall("delete", cwd, id, <<>>, <<"false">>)
                 /\ UNCHANGED <<sfiles, sindex>>
            ELSE /\ StoreCall("delete", cwd, id, <<>>, <<"true">>)
                 /\ sfiles' = [sfiles EXCEPT ![<<slug, id>>] = Enoent]
                 /\ sindex' = [sindex EXCEPT ![slug] = Splice(entries, idx)]

\* A call of loadSession.
LoadCall(cwd, id) ==
    /\ StoreCall("load", cwd, id, <<>>, loadSession(sfiles, cwd, id))
    /\ UNCHANGED <<sfiles, sindex>>

\* A call of resolveSessionId.
ResolveCall(cwd, prefix) ==
    /\ StoreCall("resolve", cwd, prefix, <<>>, resolveSessionId(sindex, cwd, prefix))
    /\ UNCHANGED <<sfiles, sindex>>

InitStore ==
    /\ ReplInit
    /\ ToolsIdle
    /\ RetryIdle
    /\ ModelIdle
    /\ InputIdle
    /\ PureIdle
    /\ BashIdle
    /\ ReadIdle
    /\ FlushIdle
    /\ sfiles = [k \in ProjectDirs \X SessionIds |-> Enoent]
    /\ sindex = [d \in ProjectDirs |-> <<>>]
    /\ snow = 0
    /\ slast = NoCall

NextStore ==
    /\ UNCHANGED <<replVars, toolVars, retryVars, bashVars, readVars, flushVars, pureVars, inputVars, modelVars>>
    /\ \/ \E cwd \in Cwds, id \in SessionIds, msgs \in StoreLists : saveSession(cwd, id, msgs)
       \/ \E cwd \in Cwds, id \in SessionIds : deleteSession(cwd, id)
       \/ \E cwd \in Cwds, id \in SessionIds : LoadCall(cwd, id)
       \/ \E cwd \in Cwds, prefix \in Prefixes : ResolveCall(cwd, prefix)

SpecStore == InitStore /\ [][NextStore]_vars

\* ------------------------------------------------- the text path of runStream

\* scheduleFlush(text, false): remember the text and arm the timer unless it is
\* armed already.
scheduleFlush(text) ==
    /\ faccumulated' = text
    /\ fflushTimer' = TRUE
    /\ UNCHANGED factiveTurn

\* The provider sends a text delta: the SDK adds it to the step's text and to
\* textStream. Deltas are numbered in arrival order.
TextDelta ==
    /\ fphase = "streaming"
    /\ Len(freceived) < MaxDeltas
    /\ LET delta == Len(freceived) + 1
       IN  /\ freceived' = Append(freceived, delta)
           /\ fstepText' = Append(fstepText, delta)
           /\ fqueue' = Append(fqueue, delta)
    /\ UNCHANGED <<fphase, fsteps, faccumulated, fflushTimer, factiveTurn, fstatic>>

\* One iteration of the for-await loop over textStream.
ReadDelta ==
    /\ fphase \in {"streaming", "finished"}
    /\ fqueue # <<>>
    /\ scheduleFlush(faccumulated \o <<Head(fqueue)>>)
    /\ fqueue' = Tail(fqueue)
    /\ UNCHANGED <<fphase, freceived, fstepText, fsteps, fstatic>>

\* The timer callback of scheduleFlush.
FlushTimerFires ==
    /\ fflushTimer
    /\ fflushTimer' = FALSE
    /\ factiveTurn' = faccumulated
    /\ UNCHANGED <<fphase, freceived, fqueue, fstepText, fsteps, faccumulated, fstatic>>

\* The text part of onStepFinish; another step follows when the step had tool
\* calls.
StepFinish(another) ==
    /\ fphase = "streaming"
    /\ fsteps < MaxSteps
    /\ another => fsteps + 1 < MaxSteps
    /\ fsteps' = fsteps + 1
    /\ fphase' = IF another THEN "streaming" ELSE "finished"
    /\ fstepText' = <<>>
    /\ IF fstepText # <<>>
           THEN /\ fflushTimer' = FALSE
                /\ fstatic' = Append(fstatic, [content |-> fstepText, done |-> FALSE])
                /\ faccumulated' = <<>>
                /\ factiveTurn' = <<>>
           ELSE UNCHANGED <<fflushTimer, fstatic, faccumulated, factiveTurn>>
    /\ UNCHANGED <<freceived, fqueue>>

\* textStream is exhausted and runStream finalizes the turn:
\* scheduleFlush(accumulated, true) clears the timer and shows the text, then
\* setActiveTurn(null) and the commit of what accumulated holds.
FinalFlush ==
    /\ fphase = "finished"
    /\ fqueue = <<>>
    /\ fphase' = "done"
    /\ faccumulated' = faccumulated
    /\ fflushTimer' = FALSE
    /\ factiveTurn' = NullTurn
    /\ fstatic' = IF faccumulated # <<>>
                      THEN Append(fstatic, [content |-> faccumulated, done |-> TRUE])
                      ELSE fstatic
    /\ UNCHANGED <<freceived, fqueue, fstepText, fsteps>>

RECURSIVE Emitted(_)
\* The assistant text on the screen: the contents of the entries, in order.
Emitted(entries) ==
    IF entries = <<>> THEN <<>> ELSE Head(entries).content \o Emitted(Tail(entries))

InitFlush ==
    /\ ReplInit
    /\ ToolsIdle
    /\ RetryIdle
    /\ ModelIdle
    /\ InputIdle
    /\ PureIdle
    /\ BashIdle
    /\ ReadIdle
    /\ StoreIdle
    /\ fphase = "streaming"
    /\ freceived = <<>>
    /\ fqueue = <<>>
    /\ fstepText = <<>>
    /\ fsteps = 0
    /\ faccumulated = <<>>
    /\ fflushTimer = FALSE
    /\ factiveTurn = <<>>
    /\ fstatic = <<>>

NextFlush ==
    /\ UNCHANGED <<replVars, toolVars, retryVars, bashVars, readVars, storeVars, pureVars, inputVars, modelVars>>
    /\ \/ TextDelta
       \/ ReadDelta
       \/ FlushTimerFires
       \/ \E another \in BOOLEAN : StepFinish(another)
       \/ FinalFlush

SpecFlush == InitFlush /\ [][NextFlush]_vars

\* ------------------------------------------------------------------ doStream
\* The provider's chunks are taken after parsing; every parsed chunk carries
\* an id, includeRawChunks is off, and usage is not followed.

\* The fragments of a tool call's arguments a chunk can carry ("" is falsy).
ArgFragments == {"", "x", "y"}

\* toolCallDelta: index, id ("" for absent) and function.arguments.
ToolCallDeltas == [index : 0..(MaxIndex - 1), id : {"", "c1"}, arguments : ArgFragments]

FailedChunk ==
    [success |-> FALSE, choice |-> FALSE, reasoning |-> FALSE, content |-> FALSE,
     tool_calls |-> <<>>, finish |-> FALSE]

\* parseResult: a parse failure, a chunk without choices, or a chunk whose
\* first choice has a delta.
ParseResults ==
    {FailedChunk, [FailedChunk EXCEPT !.success = TRUE]}
    \cup [success : {TRUE}, choice : {TRUE}, reasoning : BOOLEAN, content : BOOLEAN,
          tool_calls : SeqsUpTo(ToolCallDeltas, MaxToolDeltas), finish : BOOLEAN]

\* A stream part; index is kept for the tool parts only to tell which entry
\* of toolCallState enqueued them.
Part(type, index, id, data) == [type |-> type, index |-> index, id |-> id, data |-> data]

\* generateId(): the n-th id handed out.
generateId(n) == "g" \o ToString(n)

\* What transform() and flush() work on: the closure's variables and the
\* controller's queue.
StreamState ==
    [toolCallState |-> mtoolCallState, textId |-> mtextId, reasoningId |-> mreasoningId,
     meta |-> mmeta, finish |-> mfinish, gen |-> mgen, events |-> mevents]

Enqueue(st, part) == [st EXCEPT !.events = Append(st.events, part)]

\* toolCallState.get(index): the position of the entry, 0 for undefined.
GetToolCall(st, index) ==
    IF \E k \in DOMAIN st.toolCallState : st.toolCallState[k].index = index
        THEN CHOOSE k \in DOMAIN st.toolCallState : st.toolCallState[k].index = index
        ELSE 0

\* `if (!responseMetadataEmitted && chunk.id)`.
OnMetadata(st) ==
    IF st.meta THEN st
    ELSE Enqueue([st EXCEPT !.meta = TRUE], Part("response-metadata", -1, "", ""))

\* `if (delta.reasoning_content)`.
OnReasoning(st, present) ==
    IF ~present THEN st
    ELSE LET s1 == IF st.reasoningId = ""
                       THEN Enqueue([st EXCEPT !.reasoningId = generateId(st.gen),
                                               !.gen = st.gen + 1],
                                    Part("reasoning-start", -1, generateId(st.gen), ""))
                       ELSE st
         IN  Enqueue(s1, Part("reasoning-delta", -1, s1.reasoningId, "r"))

\* `if (delta.content)`.
OnContent(st, present) ==
    IF ~present THEN st
    ELSE LET s1 == IF st.textId = ""
                       THEN Enqueue([st EXCEPT !.textId = generateId(st.gen),
                                               !.gen = st.gen + 1],
                                    Part("text-start", -1, generateId(st.gen), ""))
                       ELSE st
         IN  Enqueue(s1, Part("text-delta", -1, s1.textId, "t"))

\* Mutant of OnToolCallDelta: the fragment replaces the arguments so far.
OnToolCallDeltaReplaces(st, d) ==
    LET known == GetToolCall(st, d.index)
        id == IF d.id = "" THEN generateId(st.gen) ELSE d.id
        s1 == IF known # 0 THEN st
              ELSE Enqueue([st EXCEPT !.toolCallState =
                                          Append(st.toolCallState,
                                                 [index |-> d.index, id |-> id,
                                                  arguments |-> ""]),
                                      !.gen = IF d.id = "" THEN st.gen + 1 ELSE st.gen],
                           Part("tool-input-start", d.index, id, ""))
        k == GetToolCall(s1, d.index)
    IN  IF d.arguments = "" THEN s1
        ELSE Enqueue([s1 EXCEPT !.toolCallState[k].arguments = d.arguments],
                     Part("tool-input-delta", d.index, s1.toolCallState[k].id, d.arguments))

\* One pass of `for (const toolCallDelta of delta.tool_calls)`.
OnToolCallDelta(st, d) ==
    LET known == GetToolCall(st, d.index)
        id == IF d.id = "" THEN generateId(st.gen) ELSE d.id
        s1 == IF known # 0 THEN st
              ELSE Enqueue([st EXCEPT !.toolCallState =
                                          Append(st.toolCallState,
                                                 [index |-> d.index, id |-> id,
                                                  arguments |-> ""]),
                                      !.gen = IF d.id = "" THEN st.gen + 1 ELSE st.gen],
                           Part("tool-input-start", d.index, id, ""))
        k == GetToolCall(s1, d.index)
    IN  IF d.arguments = "" THEN s1
        ELSE Enqueue([s1 EXCEPT !.toolCallState[k].arguments = @ \o d.arguments],
                     Part("tool-input-delta", d.index, s1.toolCallState[k].id, d.arguments))

RECURSIVE OnToolCalls(_, _)
OnToolCalls(st, deltas) ==
    IF deltas = <<>> THEN st
    ELSE OnToolCalls(OnToolCallDelta(st, Head(deltas)), Tail(deltas))

\* transform(parseResult, controller)
transform(st, c) ==
    IF ~c.success THEN Enqueue(st, Part("error", -1, "", ""))
    ELSE LET s1 == OnMetadata(st)
         IN  IF ~c.choice THEN s1
             ELSE LET s2 == OnToolCalls(OnContent(OnReasoning(s1, c.reasoning), c.content),
                                        c.tool_calls)
                  IN  IF c.finish THEN [s2 EXCEPT !.finish = "stop"] ELSE s2

\* toolCallState.forEach of flush(), from entry k on.
RECURSIVE FlushToolCalls(_, _)
FlushToolCalls(st, k) ==
    IF k > Len(st.toolCallState) THEN st
    ELSE LET tc == st.toolCallState[k]
         IN  FlushToolCalls(
                 Enqueue(Enqueue(st, Part("tool-input-end", tc.index, tc.id, "")),
                         Part("tool-call", tc.index, tc.id, tc.arguments)),
                 k + 1)

\* flush(controller)
flush(st) ==
    LET s1 == IF st.reasoningId # ""
                  THEN Enqueue(st, Part("reasoning-end", -1, st.reasoningId, ""))
                  ELSE st
        s2 == IF s1.textId # ""
                  THEN Enqueue(s1, Part("text-end", -1, s1.textId, ""))
                  ELSE s1
    IN  Enqueue(FlushToolCalls(s2, 1), Part("finish", -1, "", s2.finish))

\* The closure's variables and the queue become st.
SetStream(st) ==
    /\ mtoolCallState' = st.toolCallState
    /\ mtextId' = st.textId
    /\ mreasoningId' = st.reasoningId
    /\ mmeta' = st.meta
    /\ mfinish' = st.finish
    /\ mgen' = st.gen
    /\ mevents' = st.events

\* The provider's next chunk goes through transform().
TransformChunk ==
    /\ mphase = "open"
    /\ mcount < MaxStream
    /\ \E c \in ParseResults : SetStream(transform(StreamState, c))
    /\ mcount' = mcount + 1
    /\ UNCHANGED mphase

\* The provider's stream ends: flush() runs.
FlushStream ==
    /\ mphase = "open"
    /\ SetStream(flush(StreamState))
    /\ mphase' = "flushed"
    /\ UNCHANGED mcount

\* After start(): stream-start is enqueued.
InitModel ==
    /\ ReplInit
    /\ ToolsIdle
    /\ RetryIdle
    /\ InputIdle
    /\ BashIdle
    /\ ReadIdle
    /\ StoreIdle
    /\ FlushIdle
    /\ PureIdle
    /\ mphase = "open"
    /\ mcount = 0
    /\ mtoolCallState = <<>>
    /\ mtextId = ""
    /\ mreasoningId = ""
    /\ mmeta = FALSE
    /\ mfinish = "other"
    /\ mgen = 0
    /\ mevents = <<Part("stream-start", -1, "", "")>>

NextModel ==
    /\ UNCHANGED <<replVars, toolVars, retryVars, bashVars, readVars, storeVars, flushVars, pureVars, inputVars>>
    /\ \/ TransformChunk
       \/ FlushStream

SpecModel == InitModel /\ [][NextModel]_vars

\* ------------------------------------------------------------ helper functions

TRUNCATE_HEAD == 100

TRUNCATE_TAIL == 50

\* Text is a sequence whose elements are line breaks and pieces of a line.
\* The outputs truncateBashOutput is given: n numbered lines joined by line
\* breaks, with or without a line break after the last.
BashOutput(n, final) ==
    JoinLines([i \in 1..n |-> <<ToString(i)>>]) \o (IF final THEN <<"\n">> ELSE <<>>)

BashOutputs == {BashOutput(n, final) : n \in 0..MaxLines, final \in BOOLEAN}

\* `... ${dropped} lines truncated ...`
TruncationMarker(dropped) == <<"... " \o ToString(dropped) \o " lines truncated ...">>

\* Mutant of truncateBashOutput: the threshold test is < for <=.
truncateBashOutputStrict(output) ==
    IF output = <<>> THEN output
    ELSE LET lines == SplitLines(output)
             total == Len(lines)
         IN  IF total < TRUNCATE_HEAD + TRUNCATE_TAIL THEN output
             ELSE JoinLines(SubSeq(lines, 1, TRUNCATE_HEAD)
                            \o <<TruncationMarker(total - TRUNCATE_HEAD - TRUNCATE_TAIL)>>
                            \o SubSeq(lines, total - TRUNCATE_TAIL + 1, total))

truncateBashOutput(output) ==
    IF output = <<>> THEN output
    ELSE LET lines == SplitLines(output)
             total == Len(lines)
         IN  IF total <= TRUNCATE_HEAD + TRUNCATE_TAIL THEN output
             ELSE JoinLines(SubSeq(lines, 1, TRUNCATE_HEAD)
                            \o <<TruncationMarker(total - TRUNCATE_HEAD - TRUNCATE_TAIL)>>
                            \o SubSeq(lines, total - TRUNCATE_TAIL + 1, total))

\* A call of truncateBashOutput.
TruncateCall ==
    /\ pfn = "truncateBashOutput"
    /\ ~pdone
    /\ pdone' = TRUE
    /\ pout' = truncateBashOutput(pin)
    /\ UNCHANGED <<pfn, pin>>

\* The contents computeDiff is given, line breaks included.
DiffTexts == SeqsUpTo({"a", "b", "\n"}, MaxDiff)

\* What computeDiff is called on: the file at the path, and the new content.
DiffInputs ==
    [file : {NoFile} \cup {[exists |-> TRUE, content |-> t] : t \in DiffTexts},
     new  : DiffTexts]

\* oldContent: null
NullContent == <<"null">>

\* Mutant of computeDiff: lines are compared position by position.
computeDiffPositional(file, newContent) ==
    IF ~file.exists
        THEN [added |-> Len(SplitLines(newContent)), removed |-> 0,
              oldContent |-> NullContent]
        ELSE LET oldLines == SplitLines(file.content)
                 newLines == SplitLines(newContent)
             IN  [added      |-> Cardinality({i \in 1..Len(newLines) :
                                      i > Len(oldLines) \/ oldLines[i] # newLines[i]}),
                  removed    |-> Cardinality({i \in 1..Len(oldLines) :
                                      i > Len(newLines) \/ oldLines[i] # newLines[i]}),
                  oldContent |-> file.content]

computeDiff(file, newContent) ==
    IF ~file.exists
        THEN [added |-> Len(SplitLines(newContent)), removed |-> 0,
              oldContent |-> NullContent]
        ELSE LET oldLines == SplitLines(file.content)
                 newLines == SplitLines(newContent)
                 oldSet == Range(oldLines)
                 newSet == Range(newLines)
             IN  [added      |-> Len(SelectSeq(newLines, LAMBDA l : l \notin oldSet)),
                  removed    |-> Len(SelectSeq(oldLines, LAMBDA l : l \notin newSet)),
                  oldContent |-> file.content]

\* A call of computeDiff.
DiffCall ==
    /\ pfn = "computeDiff"
    /\ ~pdone
    /\ pdone' = TRUE
    /\ pout' = computeDiff(pin.file, pin.new)
    /\ UNCHANGED <<pfn, pin>>

\* The input line and the cursor deleteLeftOfCursor is given; the cursor may
\* lie outside the line.
EditInputs ==
    [value : SeqsUpTo({"1", "2", "3"}, MaxValue), cursor : (-1)..(MaxValue + 1)]

\* String.prototype.slice(start, end) for 0 <= start and 0 <= end.
SliceTo(str, start, end) ==
    SubSeq(str, start + 1, IF end < Len(str) THEN end ELSE Len(str))

\* Mutant of deleteLeftOfCursor: the character under the cursor goes.
deleteLeftOfCursorAtCursor(value, cursor) ==
    IF cursor <= 0
        THEN [value |-> value, cursor |-> 0]
        ELSE [value  |-> SliceTo(value, 0, cursor) \o Slice(value, cursor + 1),
              cursor |-> cursor - 1]

deleteLeftOfCursor(value, cursor) ==
    IF cursor <= 0
        THEN [value |-> value, cursor |-> 0]
        ELSE [value  |-> SliceTo(value, 0, cursor - 1) \o Slice(value, cursor),
              cursor |-> cursor - 1]

\* A call of deleteLeftOfCursor.
DeleteCall ==
    /\ pfn = "deleteLeftOfCursor"
    /\ ~pdone
    /\ pdone' = TRUE
    /\ pout' = deleteLeftOfCursor(pin.value, pin.cursor)
    /\ UNCHANGED <<pfn, pin>>

InitPure ==
    /\ ReplInit
    /\ ToolsIdle
    /\ RetryIdle
    /\ ModelIdle
    /\ InputIdle
    /\ BashIdle
    /\ ReadIdle
    /\ StoreIdle
    /\ FlushIdle
    /\ \/ pfn = "truncateBashOutput" /\ pin \in BashOutputs
       \/ pfn = "computeDiff" /\ pin \in DiffInputs
       \/ pfn = "deleteLeftOfCursor" /\ pin \in EditInputs
    /\ pdone = FALSE
    /\ pout = <<>>

NextPure ==
    /\ UNCHANGED <<replVars, toolVars, retryVars, bashVars, readVars, storeVars, flushVars, inputVars, modelVars>>
    /\ \/ TruncateCall
       \/ DiffCall
       \/ DeleteCall

SpecPure == InitPure /\ [][NextPure]_vars

Init ==
    /\ ReplInit
    /\ ToolsIdle
    /\ RetryIdle
    /\ LaterIdle

\* ------------------------------------------------------------ session store

\* saveSession: nothing is written for an empty list.
SaveSession(d, sid, msgs) ==
    IF msgs = <<>> THEN d ELSE [d EXCEPT ![sid] = msgs]

\* loadSession: the saved list, <<>> when the file is absent.
LoadSession(d, sid) == d[sid]

CountUsers(msgs) == Cardinality({i \in DOMAIN msgs : msgs[i].role = "user"})

\* ------------------------------------------------------------- tool registry

\* The tool body after the gate: applyEdit / writeFile / runBash ran and
\* returned (res = "ok") or failed (res = "error", caught by execute).
RunBody(c, res) ==
    [c EXCEPT !.st = "done", !.out = res, !.ran = TRUE]

\* The continuation of `await requestConfirm(...)` once the promise is settled.
AfterConfirm(c, approved, res) ==
    IF approved
        THEN RunBody([c EXCEPT !.answer = "approved"], res)
        ELSE [c EXCEPT !.st = "done", !.answer = "denied", !.out = "denied"]

\* pending.resolve(approved) called by `who`: only the first call settles
\* the promise.
Resolve(c, approved, res, who) ==
    IF c.st = "awaiting"
        THEN [AfterConfirm(c, approved, res) EXCEPT
                 !.resolves = c.resolves + 1, !.by = who]
        ELSE [c EXCEPT !.resolves = c.resolves + 1]

\* Mutant of requestConfirm: skipConfirm is not looked at.
RequestConfirmAlwaysAsks(i, res) ==
    /\ calls' = [calls EXCEPT ![i].st = "awaiting"]
    /\ pendingConfirm' = [toolName |-> calls[i].tool, id |-> i]

\* requestConfirm: resolved at once under skipConfirm, otherwise handed to
\* the UI through confirm(), which is setPendingConfirm.
RequestConfirm(i, res) ==
    IF skipConfirm
        THEN /\ calls' = [calls EXCEPT ![i] = AfterConfirm(calls[i], TRUE, res)]
             /\ UNCHANGED pendingConfirm
        ELSE /\ calls' = [calls EXCEPT ![i].st = "awaiting"]
             /\ pendingConfirm' = [toolName |-> calls[i].tool, id |-> i]

\* The calls whose execute() is suspended in `await requestConfirm(...)`.
AwaitingCalls == {i \in DOMAIN calls : calls[i].st = "awaiting"}

\* ---------------------------------------------------------------- streamText

\* Mutant of LimitReached: the comparison off by one.
LimitReachedOffByOne(n) == n + 1 > MAX_TOOL_STEPS

\* The hard-limit test of onStepFinish.
LimitReached(n) == n + 1 >= MAX_TOOL_STEPS

\* stopWhen: stepCountIs(MAX_TOOL_STEPS), evaluated after step n (0-based).
StopWhen(n) == n + 1 >= MAX_TOOL_STEPS

LimitEntry == Entry("error", <<>>, "limit")

LimitIssued == LimitEntry \in Range(staticTurns)

\* The provider sends one more text delta of the current step.
ProviderTextDelta ==
    /\ sdkPhase = "streaming"
    /\ Len(stepText) < MaxChunks
    /\ Len(textStream) < MaxQueue
    /\ stepText' = Append(stepText, Len(stepText) + 1)
    /\ textStream' = Append(textStream, Len(stepText) + 1)
    /\ UNCHANGED <<histVars, flagVars, turnVars, pendingConfirm, sdkPhase,
                   stepNumber, calls>>

\* The provider stream of the step ends; its tool calls are emitted in order.
ProviderFinish ==
    /\ sdkPhase = "streaming"
    /\ \E cs \in SeqsUpTo(ModelTools, MaxCalls) :
           calls' = [i \in DOMAIN cs |-> EmittedCall(cs[i])]
    /\ sdkPhase' = "tools"
    /\ UNCHANGED <<histVars, flagVars, turnVars, pendingConfirm, stepNumber,
                   stepText, textStream>>

\* execute() of call i runs up to its first await.  Calls are started in
\* emission order, each as soon as its tool-call part arrives.
ToolStart(i) ==
    /\ sdkPhase = "tools"
    /\ i \in DOMAIN calls
    /\ calls[i].st = "emitted"
    /\ \A j \in 1..(i - 1) : calls[j].st # "emitted"
    /\ \E pre \in {"ok", "error"}, res \in {"ok", "error"} :
          IF calls[i].tool \notin NeedsConfirm
              THEN /\ calls' = [calls EXCEPT ![i].st = "done", ![i].out = res]
                   /\ UNCHANGED pendingConfirm
              ELSE IF calls[i].tool \in DiffBeforeConfirm /\ pre = "error"
                  THEN /\ calls' = [calls EXCEPT ![i].st = "done", ![i].out = "error"]
                       /\ UNCHANGED pendingConfirm
                  ELSE RequestConfirm(i, res)
    /\ UNCHANGED <<histVars, flagVars, turnVars, sdkPhase, stepNumber, stepText,
                   textStream>>

\* onStepFinish(step), then the SDK's decision to run another step.
onStepFinish ==
    /\ sdkPhase = "tools"
    /\ \A i \in DOMAIN calls : calls[i].st = "done"
    /\ accumulated' = IF stepText # <<>> THEN <<>> ELSE accumulated
    /\ IF LimitReached(stepNumber)
          THEN /\ staticTurns' = Append(staticTurns, LimitEntry)
               /\ abortRef' = TRUE
          ELSE UNCHANGED <<staticTurns, abortRef>>
    /\ IF calls # <<>> /\ ~StopWhen(stepNumber)
          THEN /\ sdkPhase' = "streaming"
               /\ stepNumber' = stepNumber + 1
               /\ stepText' = <<>>
               /\ calls' = <<>>
          ELSE /\ sdkPhase' = "finished"
               /\ UNCHANGED <<stepNumber, stepText, calls>>
    /\ UNCHANGED <<histVars, inFlight, compacting, exited, skipConfirm,
                   pendingConfirm, textStream, interrupted, outcome, saved>>

\* ----------------------------------------------------------------- runStream

\* The code after the for-await loop: commit or pop, then saveSession.
Finalize ==
    LET commit == ~abortRef /\ accumulated # <<>>
        msgs == IF commit THEN Append(messages, AssistantMessage(accumulated))
                ELSE IF abortRef THEN Pop(messages)
                ELSE messages
    IN  /\ messages' = msgs
        /\ staticTurns' = IF commit
                            THEN Append(staticTurns, Entry("assistant", accumulated, ""))
                            ELSE staticTurns
        /\ pendingConfirm' = NoPending
        /\ disk' = SaveSession(disk, sessionIdRef, msgs)
        /\ saved' = TRUE
        /\ inFlight' = FALSE
        /\ accumulated' = <<>>
        /\ outcome' = IF interrupted # "no" THEN "cancelled"
                      ELSE IF LimitIssued THEN "limit"
                      ELSE "success"
        /\ UNCHANGED <<turnCount, sessionIdRef, nextSession, turns, abortRef,
                       compacting, exited, skipConfirm, interrupted>>

\* One iteration of `for await (const chunk of result.textStream)`.
ConsumeChunk ==
    /\ inFlight
    /\ sdkPhase \in {"streaming", "tools", "finished"}
    /\ textStream # <<>>
    /\ IF abortRef
          THEN /\ Finalize
               /\ sdkPhase' = "detached"
               /\ stepNumber' = 0
               /\ stepText' = <<>>
               /\ textStream' = <<>>
               /\ calls' = SelectSeq(calls, LAMBDA c : c.st = "awaiting")
          ELSE /\ accumulated' = accumulated \o <<Head(textStream)>>
               /\ textStream' = Tail(textStream)
               /\ UNCHANGED <<histVars, flagVars, staticTurns, interrupted, outcome,
                              saved, pendingConfirm, sdkPhase, stepNumber, stepText,
                              calls>>

\* textStream is exhausted: the loop ends without a break.
StreamEnd ==
    /\ inFlight
    /\ sdkPhase = "finished"
    /\ textStream = <<>>
    /\ Finalize
    /\ sdkPhase' = "idle"
    /\ stepNumber' = 0
    /\ stepText' = <<>>
    /\ calls' = <<>>
    /\ UNCHANGED textStream

ErrorClasses == {"auth", "network", "rate_limit", "unknown"}

\* The message shown by the catch block for an error of class cls.
ErrorContent(cls) ==
    IF cls = "auth" THEN "auth"
    ELSE IF cls = "network" THEN "network"
    ELSE "generic"

\* The provider call of the current step fails: runStream's catch block.
ProviderError ==
    /\ inFlight
    /\ sdkPhase = "streaming"
    /\ \E cls \in ErrorClasses :
           staticTurns' = Append(staticTurns, Entry("error", <<>>, ErrorContent(cls)))
    /\ messages' = Pop(messages)
    /\ pendingConfirm' = NoPending
    /\ inFlight' = FALSE
    /\ accumulated' = <<>>
    /\ outcome' = "failed"
    /\ sdkPhase' = "failed"
    /\ stepNumber' = 0
    /\ stepText' = <<>>
    /\ textStream' = <<>>
    /\ calls' = <<>>
    /\ UNCHANGED <<turnCount, sessionIdRef, disk, nextSession, turns, abortRef,
                   compacting, exited, skipConfirm, interrupted, saved>>

\* ------------------------------------------------------------------ handlers

\* Promise jobs are due: a delta the loop has not read, an execute() not yet
\* started, a step whose results are all in, or an exhausted textStream.
PromiseJobsDue ==
    \/ inFlight /\ sdkPhase \in {"streaming", "tools", "finished"} /\ textStream # <<>>
    \/ sdkPhase = "tools" /\ \E i \in DOMAIN calls : calls[i].st = "emitted"
    \/ sdkPhase = "tools" /\ \A i \in DOMAIN calls : calls[i].st = "done"
    \/ inFlight /\ sdkPhase = "finished"


SubmitKinds == {"prompt", "exit", "clear", "compact", "resume", "handled"}

\* The turn-start branch of handleSubmit, up to the call of streamText.
StartTurn ==
    /\ turns < MaxTurns
    /\ inFlight' = TRUE
    /\ abortRef' = FALSE
    /\ staticTurns' = <<Entry("user", Prompt, "")>>
    /\ messages' = Append(messages, UserMessage)
    /\ turnCount' = turnCount + 1
    /\ turns' = turns + 1
    /\ accumulated' = <<>>
    /\ sdkPhase' = "streaming"
    /\ stepNumber' = 0
    /\ stepText' = <<>>
    /\ textStream' = <<>>
    /\ calls' = <<>>
    /\ interrupted' = "no"
    /\ outcome' = "none"
    /\ saved' = FALSE
    /\ UNCHANGED <<sessionIdRef, disk, nextSession, pendingConfirm, compacting,
                   exited, skipConfirm>>

\* The slash-command branches of handleSubmit; sid is the session a /resume names.
SlashCommand(kind, sid) ==
    IF kind = "exit"
        THEN /\ exited' = TRUE
             /\ UNCHANGED <<histVars, inFlight, abortRef, compacting, skipConfirm,
                            turnVars, pendingConfirm, sdkVars>>
    ELSE IF kind = "clear"
        THEN /\ nextSession < MaxSessions
             /\ messages' = <<>>
             /\ turnCount' = 0
             /\ sessionIdRef' = nextSession + 1
             /\ nextSession' = nextSession + 1
             /\ staticTurns' = <<>>
             /\ UNCHANGED <<disk, turns, flagVars, accumulated, interrupted, outcome,
                            saved, pendingConfirm, sdkVars>>
    ELSE IF kind = "compact"
        THEN /\ IF messages = <<>>
                   THEN UNCHANGED <<inFlight, compacting>>
                   ELSE inFlight' = TRUE /\ compacting' = TRUE
             /\ UNCHANGED <<histVars, abortRef, exited, skipConfirm, turnVars,
                            pendingConfirm, sdkVars>>
    ELSE IF kind = "resume"
        THEN /\ sid <= nextSession
             /\ LET loaded == LoadSession(disk, sid)
                IN  IF loaded = <<>>
                        THEN UNCHANGED <<messages, turnCount, sessionIdRef, staticTurns>>
                        ELSE /\ messages' = loaded
                             /\ turnCount' = CountUsers(loaded)
                             /\ sessionIdRef' = sid
                             /\ staticTurns' = <<>>
             /\ UNCHANGED <<disk, nextSession, turns, flagVars, accumulated,
                            interrupted, outcome, saved, pendingConfirm, sdkVars>>
    ELSE UNCHANGED replVars

\* Mutant of handleSubmit: the inFlight guard is missing.
handleSubmitNoGuard ==
    /\ ~PromiseJobsDue
    /\ \E kind \in SubmitKinds, sid \in Sessions :
          IF kind = "prompt" THEN StartTurn
          ELSE SlashCommand(kind, sid)

\* handleSubmit(input); kind is what handleSlashCommand makes of the input.
handleSubmit ==
    /\ ~PromiseJobsDue
    /\ \E kind \in SubmitKinds, sid \in Sessions :
          IF inFlight THEN UNCHANGED replVars
          ELSE IF kind = "prompt" THEN StartTurn
          ELSE SlashCommand(kind, sid)

\* runCompact after `await generateText(...)`: the summary replaces the
\* history, or the catch block reports the failure.
CompactFinish ==
    /\ compacting
    /\ ~PromiseJobsDue
    /\ \E ok \in BOOLEAN :
           messages' = IF ok THEN <<AssistantMessage(SummaryText)>> ELSE messages
    /\ inFlight' = FALSE
    /\ compacting' = FALSE
    /\ UNCHANGED <<turnCount, sessionIdRef, disk, nextSession, turns, abortRef,
                   exited, skipConfirm, turnVars, pendingConfirm, sdkVars>>

\* Mutant of handleInterrupt: the slot is cleared without calling resolve.
handleInterruptNoResolve ==
    /\ ~PromiseJobsDue
    /\ IF inFlight
          THEN /\ abortRef' = TRUE
               /\ interrupted' = IF compacting \/ interrupted # "no" THEN interrupted
                                  ELSE IF AwaitingCalls # {} THEN "tool"
                                  ELSE "streaming"
               /\ pendingConfirm' = NoPending
               /\ UNCHANGED <<calls, exited>>
          ELSE /\ exited' = TRUE
               /\ UNCHANGED <<abortRef, interrupted, calls, pendingConfirm>>
    /\ UNCHANGED <<histVars, inFlight, compacting, skipConfirm, staticTurns,
                   accumulated, outcome, saved, sdkPhase, stepNumber, stepText,
                   textStream>>

\* handleInterrupt: Ctrl+C as the input box hands it on.
handleInterrupt ==
    /\ ~PromiseJobsDue
    /\ IF inFlight
          THEN /\ abortRef' = TRUE
               /\ interrupted' = IF compacting \/ interrupted # "no" THEN interrupted
                                  ELSE IF AwaitingCalls # {} THEN "tool"
                                  ELSE "streaming"
               /\ IF pendingConfirm # NoPending
                     THEN /\ calls' = [calls EXCEPT ![pendingConfirm.id] =
                                 Resolve(calls[pendingConfirm.id], FALSE, "ok", "interrupt")]
                          /\ pendingConfirm' = NoPending
                     ELSE UNCHANGED <<calls, pendingConfirm>>
               /\ UNCHANGED exited
          ELSE /\ exited' = TRUE
               /\ UNCHANGED <<abortRef, interrupted, calls, pendingConfirm>>
    /\ UNCHANGED <<histVars, inFlight, compacting, skipConfirm, staticTurns,
                   accumulated, outcome, saved, sdkPhase, stepNumber, stepText,
                   textStream>>

\* handleConfirm(approved); res is what the tool body returns if it runs.
handleConfirm ==
    /\ ~PromiseJobsDue
    /\ IF pendingConfirm = NoPending
          THEN UNCHANGED <<calls, pendingConfirm>>
          ELSE /\ \E approved \in BOOLEAN, res \in {"ok", "error"} :
                      calls' = [calls EXCEPT ![pendingConfirm.id] =
                                   Resolve(calls[pendingConfirm.id], approved, res, "user")]
               /\ pendingConfirm' = NoPending
    /\ UNCHANGED <<histVars, flagVars, turnVars, sdkPhase, stepNumber, stepText,
                   textStream>>

Next ==
    /\ ~exited
    /\ UNCHANGED <<toolVars, retryVars, laterVars>>
    /\ \/ handleSubmit
       \/ CompactFinish
       \/ handleInterrupt
       \/ handleConfirm
       \/ ProviderTextDelta
       \/ ProviderFinish
       \/ \E i \in 1..MaxCalls : ToolStart(i)
       \/ onStepFinish
       \/ ConsumeChunk
       \/ StreamEnd
       \/ ProviderError

Spec == Init /\ [][Next]_vars

\* ----------------------------------------------------------------- input box
\* InputBox's useInput handler in front of the same engine.  The streaming
\* prop is set and cleared in the same synchronous blocks as inFlight.current,
\* so the handler reads inFlight for it; waitingForConfirm is
\* pendingConfirm !== null.

\* handleModelSelect: the picker closes (the chosen model is not modelled).
handleModelSelect ==
    /\ waitingForModel' = FALSE
    /\ UNCHANGED <<replVars, inputEmpty>>

\* Mutant of KeyCtrlC: the input line is not looked at.
KeyCtrlCIgnoresLine ==
    IF waitingForModel THEN handleModelSelect
    ELSE handleInterrupt /\ UNCHANGED inputVars

\* Ctrl+C.
KeyCtrlC ==
    IF waitingForModel THEN handleModelSelect
    ELSE IF inFlight \/ pendingConfirm # NoPending
        THEN handleInterrupt /\ UNCHANGED inputVars
    ELSE IF ~inputEmpty
        THEN /\ ~PromiseJobsDue
             /\ inputEmpty' = TRUE
             /\ UNCHANGED <<replVars, waitingForModel>>
    ELSE handleInterrupt /\ UNCHANGED inputVars

\* A key of the model picker: return or escape closes it.
KeyPicker ==
    /\ waitingForModel
    /\ handleModelSelect

\* y, n or escape while a confirmation is shown.
KeyConfirm ==
    /\ ~waitingForModel
    /\ pendingConfirm # NoPending
    /\ handleConfirm
    /\ UNCHANGED inputVars

\* A character typed or deleted; nothing is taken while a turn streams or a
\* confirmation is shown.
KeyEdit ==
    /\ ~waitingForModel
    /\ pendingConfirm = NoPending
    /\ ~inFlight
    /\ ~PromiseJobsDue
    /\ \E empty \in BOOLEAN : inputEmpty' = empty
    /\ UNCHANGED <<replVars, waitingForModel>>

\* Return on a non-blank line: reset(), then onSubmit(trimmed); /model opens
\* the picker.
KeyReturn ==
    /\ ~waitingForModel
    /\ pendingConfirm = NoPending
    /\ ~inFlight
    /\ ~inputEmpty
    /\ inputEmpty' = TRUE
    /\ \E picker \in BOOLEAN :
          IF picker
              THEN /\ ~PromiseJobsDue
                   /\ waitingForModel' = TRUE
                   /\ UNCHANGED replVars
              ELSE handleSubmit /\ UNCHANGED waitingForModel

InitKeys == Init

NextKeys ==
    /\ ~exited
    /\ UNCHANGED <<toolVars, retryVars, bashVars, readVars, storeVars, flushVars, pureVars,
                   modelVars>>
    /\ \/ KeyCtrlC
       \/ KeyPicker
       \/ KeyConfirm
       \/ KeyEdit
       \/ KeyReturn
       \/ /\ UNCHANGED inputVars
          /\ \/ CompactFinish
             \/ ProviderTextDelta
             \/ ProviderFinish
             \/ \E i \in 1..MaxCalls : ToolStart(i)
             \/ onStepFinish
             \/ ConsumeChunk
             \/ StreamEnd
             \/ ProviderError

SpecKeys == InitKeys /\ [][NextKeys]_vars

\* ------------------------------------------------------- a save that throws
\* saveSession has no try of its own and runStream calls it outside its
\* try/catch: ensureDir, fs.writeFileSync or writeIndex throwing ends
\* runStream by rejection at that line.  The list saved is not empty
\* (saveSession returns before touching the disk otherwise); the session file
\* is written or not, according to which call threw.
FinalizeThrows ==
    LET commit == ~abortRef /\ accumulated # <<>>
        msgs == IF commit THEN Append(messages, AssistantMessage(accumulated))
                ELSE IF abortRef THEN Pop(messages)
                ELSE messages
    IN  /\ msgs # <<>>
        /\ messages' = msgs
        /\ staticTurns' = IF commit
                            THEN Append(staticTurns, Entry("assistant", accumulated, ""))
                            ELSE staticTurns
        /\ pendingConfirm' = NoPending
        /\ disk' \in {disk, SaveSession(disk, sessionIdRef, msgs)}
        /\ saved' = TRUE
        /\ accumulated' = <<>>
        /\ outcome' = "rejected"
        /\ UNCHANGED <<turnCount, sessionIdRef, nextSession, turns, inFlight,
                       abortRef, compacting, exited, skipConfirm, interrupted>>

\* The loop breaks on abortRef and the save throws.
ConsumeChunkThrows ==
    /\ inFlight
    /\ sdkPhase \in {"streaming", "tools", "finished"}
    /\ textStream # <<>>
    /\ abortRef
    /\ FinalizeThrows
    /\ sdkPhase' = "detached"
    /\ stepNumber' = 0
    /\ stepText' = <<>>
    /\ textStream' = <<>>
    /\ calls' = SelectSeq(calls, LAMBDA c : c.st = "awaiting")

\* textStream is exhausted and the save throws.
StreamEndThrows ==
    /\ inFlight
    /\ sdkPhase = "finished"
    /\ textStream = <<>>
    /\ FinalizeThrows
    /\ sdkPhase' = "idle"
    /\ stepNumber' = 0
    /\ stepText' = <<>>
    /\ calls' = <<>>
    /\ UNCHANGED textStream

InitDisk == Init

NextDisk ==
    \/ Next
    \/ /\ ~exited
       /\ UNCHANGED <<toolVars, retryVars, laterVars>>
       /\ \/ ConsumeChunkThrows
          \/ StreamEndThrows

SpecDisk == InitDisk /\ [][NextDisk]_vars

\* ==================================================================== claims

\* The step that ends runStream: its finalization or its catch block.
TurnEnds == inFlight /\ ~compacting /\ ~inFlight'

\* C1: with tool calls in every step the turn is stopped, and the limit
\* diagnostic issued, at step number MAX_TOOL_STEPS exactly: no step beyond
\* it runs, the diagnostic is not issued before it, and a turn whose last
\* step had tool calls stopped there, with the diagnostic.
C1_StepBudgetExact ==
    /\ stepNumber < MAX_TOOL_STEPS
    /\ (inFlight /\ ~compacting /\ LimitIssued) =>
           (stepNumber + 1 = MAX_TOOL_STEPS /\ sdkPhase = "finished")
    /\ (sdkPhase = "finished" /\ calls # <<>>) =>
           (stepNumber + 1 = MAX_TOOL_STEPS /\ LimitIssued)

C1_Witness ==
    /\ inFlight
    /\ sdkPhase = "finished"
    /\ calls # <<>>
    /\ stepNumber + 1 = MAX_TOOL_STEPS
    /\ LimitIssued

\* C2: hitting the step budget is not a cancellation: the step that issues
\* the limit diagnostic leaves the cancellation flag as it was, and the end of
\* a limit-reached turn removes nothing from the history.
C2_LimitIsNotCancellation ==
    /\ [][(~LimitIssued /\ LimitIssued') => abortRef' = abortRef]_vars
    /\ [][(TurnEnds /\ outcome' = "limit") => IsPrefix(messages, messages')]_vars

\* C3: saveSession is called at the end of a turn only if the turn ended in
\* success or limit-reached, never after a cancellation or a provider error.
C3_SaveOnlyCommitted == saved => outcome \in {"success", "limit"}

\* C4: a successful turn whose last step produced text appends an assistant
\* message carrying that text, whatever the order of onStepFinish and the
\* delta loop.
C4_SuccessCommitsText ==
    [][(TurnEnds /\ outcome' = "success" /\ stepText # <<>>) =>
          messages' = Append(messages, AssistantMessage(stepText))]_vars

\* C5: a turn cancelled while a tool call was executing ends with the history
\* as it stood: the prompt of the turn stays and no text of the unfinished
\* step is added.
C5_CancelKeepsCommitted ==
    [][(TurnEnds /\ interrupted = "tool" /\ outcome' = "cancelled") =>
          messages' = messages]_vars

C7_NoSubmitInFlight ==
    [][(inFlight /\ inFlight') =>
          UNCHANGED <<messages, turnCount, sessionIdRef, nextSession, disk,
                      turns, compacting>>]_vars

C7_Witness ==
    /\ inFlight
    /\ sdkPhase = "tools"
    /\ messages # <<>>
    /\ ENABLED handleSubmit

\* C8: at most one confirmation request is outstanding at any time.
C8_OneOutstanding == Cardinality(AwaitingCalls) <= 1

\* C9: no confirmation request is left without a way to be settled: a call
\* that waits for its confirmation is the one the pending slot holds, so that
\* handleConfirm or handleInterrupt reaches its resolve.
C9_RequestStaysReachable ==
    \A i \in AwaitingCalls : pendingConfirm # NoPending /\ pendingConfirm.id = i

\* C10: the tool calls of a step are resolved one at a time in emission
\* order: a call is started only when every call before it has returned, and
\* none is in progress while the provider stream of the step is read.
C10_ToolsOneAtATime ==
    /\ \A i, j \in DOMAIN calls :
           (i < j /\ calls[j].st # "emitted") => calls[i].st = "done"
    /\ sdkPhase = "streaming" => calls = <<>>

\* C11: the body of edit, write or bash runs only for a call whose own
\* confirmation request was answered with approval, or under skipConfirm;
\* a denied call returns the 'User denied' error, never ran its body and
\* leaves the file as it was; the other five tools never ask and never
\* wait for an answer.
C11_GateBeforeBody ==
    /\ [](tcall.ran =>
            /\ tcall.tool \in NeedsConfirm
            /\ tcall.approved \in {"yes", "skip"}
            /\ tcall.approved = "yes" => tcall.asked
            /\ tcall.approved = "skip" => skipConfirm /\ ~tcall.asked)
    /\ [](tcall.approved = "no" =>
            ~tcall.ran /\ tcall.st = "returned" /\ tcall.out = "denied")
    /\ [](tcall.tool \notin NeedsConfirm =>
            ~tcall.asked /\ tcall.st # "awaiting" /\ tcall.approved = "none")
    /\ [][(tcall.st = "awaiting" /\ tcall'.approved = "no") => tfile' = tfile]_vars

C11_Witness ==
    /\ tcall.tool = "write"
    /\ tcall.approved = "yes"
    /\ tcall.st = "returned"
    /\ tcall.out = "ok"
    /\ tfile.content = tcall.new
    /\ tcall.new # <<>>

\* C12: execute() of every tool returns a value: an exception raised inside
\* it never leaves it and becomes a ToolError.
C12_ExecuteNeverThrows ==
    /\ tcall.st # "thrown"
    /\ tcall.raised => tcall.st = "returned" /\ tcall.out = "error"

C12_Witness ==
    /\ tcall.tool = "bash"
    /\ tcall.raised
    /\ tcall.ran
    /\ tcall.st = "returned"

\* C13: when the provider call fails, the turn ends with the message list as
\* it stood, the user message of the turn included, and the error entry
\* names one of the classes auth, network, rate_limit, unknown.
C13_ErrorKeepsUserMessage ==
    [][(TurnEnds /\ outcome' = "failed") => messages' = messages]_vars

\* C14: when the signal is aborted during the backoff wait, the wait ends,
\* fn is not called again and withRetry throws the error of the attempt
\* that failed before the wait.
C14_AbortEndsRetry ==
    [][(rphase = "sleeping" /\ ~raborted /\ raborted') =>
          /\ rcalls' = rcalls
          /\ rphase' = "thrown"
          /\ rthrown' = Len(rerrs)]_vars

\* C15: with the signal not raised, fn failing twice with a network error
\* and then succeeding makes withRetry return after 3 calls of fn and 2
\* calls of onRetry: attempt 1 with 750..1250 ms, attempt 2 with
\* 1500..2500 ms; it does not throw on the way.
C15_TwoFailuresThenSuccess ==
    (/\ ~raborted
     /\ Len(rerrs) = 2
     /\ \A i \in 1..2 : classifyError(rerrs[i]) = "network")
        => /\ rphase \in {"sleeping", "calling", "returned"}
           /\ rphase = "returned" => rcalls = 3
           /\ Len(rretries) = 2
           /\ rretries[1].attempt = 1
           /\ rretries[1].delay \in 750..1250
           /\ rretries[2].attempt = 2
           /\ rretries[2].delay \in 1500..2500

C15_Witness ==
    /\ ~raborted
    /\ rphase = "returned"
    /\ rerrs = <<{"econnreset"}, {"503"}>>
    /\ rretries[1].delay = 1250
    /\ rretries[2].delay = 1500

\* C16: a first failure classified auth or unknown is thrown at once, after
\* one call of fn and without onRetry or a wait; fn is called again only
\* after failures classified rate_limit or network.
C16_NoRetryForAuthUnknown ==
    /\ (rerrs # <<>> /\ classifyError(rerrs[1]) \in {"auth", "unknown"})
          => /\ rcalls = 1
             /\ rretries = <<>>
             /\ rphase = "thrown"
             /\ rthrown = 1
    /\ \A i \in DOMAIN rerrs :
          i < rcalls => classifyError(rerrs[i]) \in {"rate_limit", "network"}

C16_Witness ==
    /\ rphase = "thrown"
    /\ rerrs = <<{"401", "econnreset"}>>
    /\ rcalls = 1

\* C17: fn is called at most 3 times and onRetry fired at most twice; the
\* third failure is thrown without another wait.
C17_AtMostThreeAttempts ==
    /\ rcalls <= MAX_ATTEMPTS
    /\ Len(rretries) <= MAX_ATTEMPTS - 1
    /\ Len(rerrs) = MAX_ATTEMPTS => rphase = "thrown" /\ rthrown = MAX_ATTEMPTS

C17_Witness ==
    /\ Len(rerrs) = MAX_ATTEMPTS
    /\ rphase = "thrown"
    /\ rthrown = 3
    /\ ~raborted
    /\ \A i \in DOMAIN rerrs : isRetryable(rerrs[i])

\* C18: an edit whose old_string (not empty) is found at exactly one place
\* of the content applyEdit read succeeds, and the file then holds that
\* content with the place replaced by new_string as it is written.
C18_EditIsLiteralSplice ==
    LET s == tcall.read
        p == tcall.old
        at == {i \in 1..(Len(s) + 1) : MatchesAt(s, p, i)}
        i == CHOOSE k \in at : TRUE
    IN  /\ (/\ tcall.tool = "edit"
            /\ tcall.st = "returned"
            /\ tcall.out = "ok"
            /\ p # <<>>
            /\ Cardinality(at) = 1)
               => tfile.content =
                      SubSeq(s, 1, i - 1) \o tcall.new \o SubSeq(s, i + Len(p), Len(s))
        /\ (/\ tcall.tool = "edit"
            /\ tcall.ran
            /\ ~tcall.raised
            /\ tcall.out = "error"
            /\ tfile.exists
            /\ p # <<>>)
               => Cardinality({k \in 1..(Len(tfile.content) + 1) :
                                  MatchesAt(tfile.content, p, k)}) # 1

\* C19: applyEdit starts to write only when old_string (not empty) is found
\* at exactly one place of the file: with no place or with two or more it
\* returns an error and the file stays as it was.
C19_EditNeedsOnePlace ==
    [][(/\ tcall'.tool = "edit"
        /\ tcall.st # "writing"
        /\ tcall'.st = "writing"
        /\ tcall'.old # <<>>)
           => Cardinality({k \in 1..(Len(tfile.content) + 1) :
                              MatchesAt(tfile.content, tcall'.old, k)}) = 1]_vars

\* C20: if the process dies during a write of writeFile or applyEdit, the
\* file, if it existed before, holds its complete old content or the
\* complete new content.
C20_CrashLeavesOldOrNew ==
    (tcrashed /\ tcall.st = "writing" /\ tcall.before.exists)
        => \/ tfile = tcall.before
           \/ tfile = [exists |-> TRUE, content |-> tcall.target]

\* Some cd target of the command, resolved against the execution root, is not
\* the root or a directory below it.
CdLeavesRoot ==
    \E i \in 1..Len(bcmd.cds) : ~IsPrefix(BaseCwd, PathResolve(BaseCwd, bcmd.cds[i]))

\* C21: a command that matches a denylist pattern never gets a child process
\* from runBash or runBashAsync; the executor throws, which reaches the model as
\* the bash tool's ToolError.
C21_DenylistBeforeSpawn ==
    bcmd.deny =>
        /\ ~bspawned
        /\ bchild = "none"
        /\ bphase \in {"idle", "thrown"}
        /\ (bphase = "thrown" => BashToolOut = "ToolError")

C21_Witness ==
    /\ bcmd.deny
    /\ bfn = "runBashAsync"
    /\ bphase = "thrown"
    /\ ~bspawned

\* C22: runBash of the bash tool never starts a command in which a cd target
\* resolves to a directory outside the subtree of the execution root.
C22_CdEscapeRejected ==
    (bfn = "runBash" /\ CdLeavesRoot) => ~bspawned

\* C23: a command that ran past the 30 s timeout or wrote more than the 10 MB
\* cap was killed and is reported with a non-zero exit code.
C23_LimitMeansNonZero ==
    (bphase = "returned" /\ (btimedOut \/ bproduced > MAX_BUFFER)) =>
        (bkilled /\ bresult.exitCode # 0)

\* C24: a command of the bash tool that was running when the user cancelled
\* the turn was killed and is reported with exit code 130.
C24_CancelKillsChild ==
    (bfn = "runBash" /\ bphase = "returned" /\ bduring) =>
        (bkilled /\ bresult.exitCode = 130)

\* C25: read of a path under .ssh, .aws or .config, or of a .env* file, never
\* returns the file's content, whatever the home directory and skipConfirm are.
C25_DenyListIsHardBlock ==
    (dout # "idle" /\ MatchesDenyList(dpath)) => dout # "content"

\* The index entries of a working directory for one session id.
EntriesOf(index, cwd, id) ==
    SelectSeq(readIndex(index, cwd), LAMBDA e : e.sessionId = id)

\* C26: right after saveSession(cwd, id, M), loadSession(cwd, id) returns M,
\* for the empty list and for the overwrite of an earlier save as well.
C26_SaveLoadRoundTrip ==
    slast.op = "save" => loadSession(sfiles, slast.cwd, slast.id) = slast.msgs

\* C27: resolveSessionId returns an id exactly when one indexed session id of
\* the working directory starts with the prefix, and then that id; otherwise
\* it returns null.
C27_ResolveNeedsUniqueMatch ==
    slast.op = "resolve" =>
        LET ids == {readIndex(sindex, slast.cwd)[i].sessionId :
                        i \in 1..Len(readIndex(sindex, slast.cwd))}
            hits == {id \in ids : StartsWith(id, slast.id)}
        IN  IF Cardinality(hits) = 1
                THEN slast.out \in hits
                ELSE slast.out = <<>>

C27_Witness ==
    /\ slast.op = "resolve"
    /\ slast.out = <<>>
    /\ Len(SelectSeq(readIndex(sindex, slast.cwd),
                     LAMBDA e : StartsWith(e.sessionId, slast.id))) = 2

\* C28: the index holds at most one entry per session id, and a save of a
\* session that already has an entry leaves that entry with the new message
\* count, the new modified time and the old created time.
C28_OneEntryPerSession ==
    /\ [](\A cwd \in Cwds, id \in SessionIds : Len(EntriesOf(sindex, cwd, id)) <= 1)
    /\ [][(slast'.op = "save" /\ snow' # snow
           /\ Len(EntriesOf(sindex, slast'.cwd, slast'.id)) = 1)
          => LET old == EntriesOf(sindex, slast'.cwd, slast'.id)
                 new == EntriesOf(sindex', slast'.cwd, slast'.id)
             IN  /\ Len(new) = 1
                 /\ new[1].messageCount = Len(slast'.msgs)
                 /\ new[1].modified = snow'
                 /\ new[1].created = old[1].created]_vars

\* C29: the list runStream passes to saveSession at the end of a successful
\* turn extends the list last saved for that session: what is on disk for the
\* session is a prefix of it.
C29_SavesOnlyExtend ==
    [][(TurnEnds /\ saved' /\ outcome' = "success") =>
          IsPrefix(LoadSession(disk, sessionIdRef), messages')]_vars

\* C30: when the turn is over, the assistant text given to the screen is the
\* concatenation of the text deltas received, each once and in arrival order,
\* however the deltas, the flush timer and onStepFinish interleaved.
C30_EmittedIsConcatenation ==
    fphase = "done" => Emitted(fstatic) = freceived

\* C31: with skipConfirm no confirmation is ever pending and no execute() is
\* ever suspended in requestConfirm; a gated call that finished was approved
\* without any resolve from the UI.
C31_SkipConfirmNeverAsks ==
    skipConfirm =>
        /\ pendingConfirm = NoPending
        /\ AwaitingCalls = {}
        /\ \A i \in DOMAIN calls :
               (calls[i].st = "done" /\ calls[i].answer # "none") =>
                   (calls[i].answer = "approved" /\ calls[i].resolves = 0)

C31_Witness ==
    /\ skipConfirm
    /\ \E i \in DOMAIN calls :
           /\ calls[i].tool \in NeedsConfirm
           /\ calls[i].st = "done"
           /\ calls[i].ran
           /\ calls[i].answer = "approved"

\* C32: with a line being what lies between two line breaks, truncateBashOutput
\* returns an output of at most 150 lines unchanged, and for n > 150 lines
\* returns 151 lines: the first 100, the marker with n - 150, the last 50.
C32_TruncateKeepsHeadAndTail ==
    (pfn = "truncateBashOutput" /\ pdone) =>
        LET lines == SplitLines(pin)
            n == Len(lines)
            res == SplitLines(pout)
        IN  IF n <= 150
                THEN pout = pin
                ELSE /\ Len(res) = 151
                     /\ SubSeq(res, 1, 100) = SubSeq(lines, 1, 100)
                     /\ res[101] = TruncationMarker(n - 150)
                     /\ SubSeq(res, 102, 151) = SubSeq(lines, n - 49, n)

C32_Witness ==
    /\ pfn = "truncateBashOutput"
    /\ pdone
    /\ Len(SplitLines(pin)) = 152
    /\ pout # pin

\* The two lists hold the same lines, each as often in one as in the other.
SameLines(xs, ys) ==
    \A l \in Range(xs) \cup Range(ys) :
        Cardinality({i \in 1..Len(xs) : xs[i] = l}) =
        Cardinality({i \in 1..Len(ys) : ys[i] = l})

\* C33: for a missing file computeDiff reports every line of the new content
\* as added and none removed; for an existing file it counts the old lines
\* whose text the new content lacks and the new lines whose text the old
\* content lacks, so the same lines in another order give 0 and 0.
C33_DiffIsLineSetDiff ==
    (pfn = "computeDiff" /\ pdone) =>
        LET oldL == SplitLines(pin.file.content)
            newL == SplitLines(pin.new)
        IN  IF ~pin.file.exists
                THEN pout.added = Len(newL) /\ pout.removed = 0
                ELSE /\ pout.removed =
                            Cardinality({i \in 1..Len(oldL) :
                                \A j \in 1..Len(newL) : newL[j] # oldL[i]})
                     /\ pout.added =
                            Cardinality({j \in 1..Len(newL) :
                                \A i \in 1..Len(oldL) : oldL[i] # newL[j]})
                     /\ SameLines(oldL, newL) => (pout.added = 0 /\ pout.removed = 0)

C33_Witness ==
    /\ pfn = "computeDiff"
    /\ pdone
    /\ pin.file.exists
    /\ pin.file.content # pin.new
    /\ SameLines(SplitLines(pin.file.content), SplitLines(pin.new))
    /\ pout.added = 0
    /\ pout.removed = 0

\* C35: for 0 < cursor <= length(value) deleteLeftOfCursor removes the one
\* character before the cursor and moves the cursor one to the left; for
\* cursor <= 0 it returns the value with cursor 0; for a cursor within the
\* value the returned cursor lies within the returned value.
C35_DeleteLeftOfCursor ==
    (pfn = "deleteLeftOfCursor" /\ pdone) =>
        LET v == pin.value
            c == pin.cursor
        IN  /\ (0 < c /\ c <= Len(v)) =>
                   /\ Len(pout.value) = Len(v) - 1
                   /\ \A i \in 1..(c - 1) : pout.value[i] = v[i]
                   /\ \A i \in c..(Len(v) - 1) : pout.value[i] = v[i + 1]
                   /\ pout.cursor = c - 1
            /\ c <= 0 => pout = [value |-> v, cursor |-> 0]
            /\ (0 <= c /\ c <= Len(v)) => (0 <= pout.cursor /\ pout.cursor <= Len(pout.value))

C35_Witness ==
    /\ pfn = "deleteLeftOfCursor"
    /\ pdone
    /\ pin = [value |-> <<"1", "2", "3">>, cursor |-> 2]
    /\ pout = [value |-> <<"1", "3">>, cursor |-> 1]

RunStreamEnds ==
    /\ inFlight /\ ~compacting
    /\ sdkPhase \in {"streaming", "tools", "finished"}
    /\ sdkPhase' \in {"idle", "detached", "failed"}

\* C36: on every path by which runStream ends (success, limit, cancellation,
\* provider error, a save that throws) inFlight is cleared, so that the next
\* submission is accepted.
C36_TurnReturnsToIdle ==
    [][RunStreamEnds => ~inFlight']_vars

\* C37: a turn whose last step made no tool call, and which nobody
\* interrupted, ends as a success: no limit diagnostic is on the screen, the
\* prompt stays in the history and the text the loop holds is committed after
\* it; so also when that step is the MAX_TOOL_STEPS-th.
C37_TextOnlyLastStepSucceeds ==
    [][(TurnEnds /\ sdkPhase = "finished" /\ calls = <<>> /\ interrupted = "no") =>
          /\ outcome' = "success"
          /\ ~LimitIssued'
          /\ messages' = IF accumulated # <<>>
                            THEN Append(messages, AssistantMessage(accumulated))
                            ELSE messages]_vars

\* C38: a saveSession or deleteSession under one working directory leaves
\* what listSessions, loadSession and resolveSessionId return under every other
\* working directory as it was.
C38_SessionsIsolatedPerCwd ==
    [][(snow' # snow /\ slast'.op \in {"save", "delete"}) =>
          \A other \in Cwds \ {slast'.cwd} :
              /\ listSessions(sindex', other) = listSessions(sindex, other)
              /\ \A id \in SessionIds :
                     loadSession(sfiles', other, id) = loadSession(sfiles, other, id)
              /\ \A prefix \in Prefixes :
                     resolveSessionId(sindex', other, prefix)
                         = resolveSessionId(sindex, other, prefix)]_vars

PartsAt(type, i) ==
    {k \in DOMAIN mevents : mevents[k].type = type /\ mevents[k].index = i}

\* The data of the tool-input-delta parts of index i, concatenated in order.
RECURSIVE DeltaDataFrom(_, _)
DeltaDataFrom(i, k) ==
    IF k > Len(mevents) THEN ""
    ELSE IF mevents[k].type = "tool-input-delta" /\ mevents[k].index = i
        THEN mevents[k].data \o DeltaDataFrom(i, k + 1)
    ELSE DeltaDataFrom(i, k + 1)

\* C40: for every tool-call index the stream holds at most one
\* tool-input-start, before all of that index's tool-input-delta parts and
\* with their id; no tool-input-end, tool-call or finish comes before the end
\* of the provider's stream; after it every started index has exactly one
\* tool-input-end, after its deltas, followed at once by its one tool-call,
\* whose input is the concatenation of its deltas in order; and exactly one
\* finish part is there, the last of the stream.
C40_StreamPartOrder ==
    /\ \A i \in 0..(MaxIndex - 1) :
          LET starts == PartsAt("tool-input-start", i)
              deltas == PartsAt("tool-input-delta", i)
              ends == PartsAt("tool-input-end", i)
              tcalls == PartsAt("tool-call", i)
          IN  /\ Cardinality(starts) <= 1
              /\ (deltas \cup ends \cup tcalls) # {} => starts # {}
              /\ \A s \in starts, k \in deltas \cup ends \cup tcalls :
                     s < k /\ mevents[k].id = mevents[s].id
              /\ mphase = "open" => ends = {} /\ tcalls = {}
              /\ (mphase = "flushed" /\ starts # {}) =>
                     /\ Cardinality(ends) = 1
                     /\ Cardinality(tcalls) = 1
                     /\ \A e \in ends :
                            /\ e + 1 \in tcalls
                            /\ \A d \in deltas : d < e
                            /\ mevents[e + 1].data = DeltaDataFrom(i, 1)
    /\ LET finishes == {k \in DOMAIN mevents : mevents[k].type = "finish"}
       IN  IF mphase = "flushed" THEN finishes = {Len(mevents)} ELSE finishes = {}

C40_Witness ==
    /\ mphase = "flushed"
    /\ \E k \in PartsAt("tool-call", 0) : mevents[k].data = "xy"
    /\ \E k \in PartsAt("tool-call", 1) : mevents[k].data = "y"
    /\ \E k \in DOMAIN mevents : mevents[k].type = "text-end"

====
